---- MODULE Spec2Model ----
(***************************************************************************)
(* Verification model of ant-cache: the keyspace (cache/cache.go), its     *)
(* expiration heap, and the persistence manager (snapshot + command log).  *)
(*                                                                         *)
(* Pointers: the Go heap holds *CacheItem pointers, and so does the map.   *)
(* A heap entry is the record [key, exp, live]; live is TRUE exactly when  *)
(* the entry is the very object c.items[key] points to.  The index field   *)
(* of that object is kept in items[key].index.  Objects that are only      *)
(* reachable from the heap (replaced or unmapped items) keep key and exp,  *)
(* which is all Cleanup reads of them.                                     *)
(*                                                                         *)
(* Time: time.Now().UnixNano() is the variable now; Tick advances it.      *)
(* Slice positions are 0-based as in Go: position p is h[p + 1].           *)
(***************************************************************************)
EXTENDS Integers, Sequences, FiniteSets, TLC

VARIABLES
    items,        \* Cache.items: key -> CacheItem record, or NoItem
    heap,         \* Cache.expirationHeap: sequence of heap entries
    now,          \* the clock
    last,         \* the last keyspace operation (or Tick, Restart) and what it returned
                  \* (Cleanup: the number of entries it popped)
    hit,          \* per key: time of the first Get hit since the last Set*/SetNX of the key, or -1
    persistence,  \* Cache.persistence # nil
    commandChan,  \* PersistenceManager.commandChan (buffered channel)
    pmState,      \* "running", "stopping" (stopChan closed), "stopped" (Stop returned), "panicked"
    writerAlive,  \* the processCommands goroutine has not returned
    aclFile,      \* the lines of the ACL file
    atdFile,      \* the ATD snapshot file, or NoFile
    gone,         \* observer, per key: "del" / "flush" when Delete / FlushAll removed it and no
                  \* Set / SetNX stored it since, else ""; "off" when not observed
    mu,           \* Cache.mu: 0 when free, else the connection holding it exclusively
    pc,           \* per connection: where its SetNX call stands
    call,         \* per connection: the arguments and the result of its call
    muts,         \* observer: the commands of the Set calls by connections, in the order
                  \* their stores took effect
    strategy,     \* the server started by main: "single-goroutine" or "pooled-goroutine"
    authManager,  \* Cache.authManager: NoAuthManager, or [passwordFile, enabled]
    authenticated,\* per connection: the local authenticated of its handler
    request,      \* the last line a handler read: [conn, line]
    response,     \* the response the handler wrote to it, a Go string
    pool,         \* PooledGoroutineServer.pool with the server's connections and
                  \* counters, or NoPool where admission is not modelled
    compact,      \* the rotated ACL files, pm.aclFileSize and where compactAclFiles
                  \* stands, or NoCompact where rotation is not modelled
    mutex         \* PersistenceManager.mutex: "" when free, else the task holding it;
                  \* NoMutex where the manager's tasks are not modelled step by step

vars == <<items, heap, now, last, hit, persistence, commandChan, pmState,
          writerAlive, aclFile, atdFile, gone, mu, pc, call, muts,
          strategy, authManager, authenticated, request, response, pool, compact, mutex>>

callVars == <<mu, pc, call, muts>>
srvVars == <<strategy, authManager, authenticated, request, response, pool>>
connVars == <<callVars, srvVars, compact, mutex>>

cacheVars == <<items, heap>>
pmVars == <<persistence, commandChan, pmState, writerAlive, aclFile, atdFile>>

----------------------------------------------------------------------------
(* Bounds of the model *)

MaxTime == 2
MaxHeap == 3

Keys == {<<"j">>, <<"k">>}
TTLs == {-1, 0, 1, 2}

NoItem == [none |-> TRUE]
NoFile == [nofile |-> TRUE]
NoAuthManager == [nil |-> TRUE]
NoPool == [nil |-> TRUE]
NoCompact == [nil |-> TRUE]
NoMutex == [nil |-> TRUE]

(* Values.  A Go string is a sequence of one-character strings.  A value   *)
(* is [t, a]: t the dynamic Go type and a a sequence of strings: the one   *)
(* string, the array's elements, or the object's key, value, key, value... *)
StrVal(s) == [t |-> "string", a |-> <<s>>]
ArrVal(es) == [t |-> "array", a |-> es]
ObjVal(kvs) == [t |-> "object", a |-> kvs]

CoreValues == {StrVal(<<"a">>)}

----------------------------------------------------------------------------
(* container/heap over ExpirationHeap.  st is [h |-> heap, it |-> items].  *)

Less(h, i, j) == h[i + 1].exp < h[j + 1].exp

Swap(st, i, j) ==
    LET h2 == [st.h EXCEPT ![i + 1] = st.h[j + 1], ![j + 1] = st.h[i + 1]]
        SetIndex(it, p) ==
            IF h2[p + 1].live THEN [it EXCEPT ![h2[p + 1].key].index = p] ELSE it
    IN  [h |-> h2, it |-> SetIndex(SetIndex(st.it, i), j)]

RECURSIVE up(_, _)
up(st, j) ==
    LET i == (j - 1) \div 2
    IN  IF j <= 0 \/ i = j \/ ~Less(st.h, j, i) THEN st
        ELSE up(Swap(st, i, j), i)

RECURSIVE down(_, _, _)
down(st, i, n) ==
    LET j1 == 2 * i + 1
        j2 == j1 + 1
        j  == IF j2 < n /\ Less(st.h, j2, j1) THEN j2 ELSE j1
    IN  IF j1 >= n THEN [st |-> st, i |-> i]
        ELSE IF ~Less(st.h, j, i) THEN [st |-> st, i |-> i]
        ELSE down(Swap(st, i, j), j, n)

(* ExpirationHeap.Pop: drop the last slot and mark the item index = -1 *)
PopLast(st) ==
    LET n == Len(st.h)
        e == st.h[n]
    IN  [h  |-> SubSeq(st.h, 1, n - 1),
         it |-> IF e.live THEN [st.it EXCEPT ![e.key].index = -1] ELSE st.it]

(* heap.Push(h, item): ExpirationHeap.Push then up(len - 1); the pushed    *)
(* item is the object about to be stored under key                         *)
HeapPush(st, key, exp) ==
    LET n  == Len(st.h)
        s1 == [h  |-> Append(st.h, [key |-> key, exp |-> exp, live |-> TRUE]),
               it |-> [st.it EXCEPT ![key].index = n]]
    IN  up(s1, n)

(* heap.Pop(h) *)
HeapPop(st) ==
    LET n == Len(st.h) - 1
    IN  PopLast(down(Swap(st, 0, n), 0, n).st)

(* heap.Remove(h, i) *)
HeapRemove(st, i) ==
    LET n  == Len(st.h) - 1
        s1 == Swap(st, i, n)
        d  == down(s1, i, n)
    IN  IF n = i THEN PopLast(st)
        ELSE IF d.i > i THEN PopLast(d.st)
        ELSE PopLast(up(s1, i))

(* The object under key stops being reachable from the map: no heap entry  *)
(* is that map's object any more                                           *)
Unlink(h, key) ==
    [p \in 1..Len(h) |-> IF h[p].key = key THEN [h[p] EXCEPT !.live = FALSE] ELSE h[p]]

----------------------------------------------------------------------------
(* Compression is switched off (DefaultCompressionConfig): both are the    *)
(* identity on the stored value                                            *)
CompressValue(value) == value
DecompressValue(value) == value

(* The type switch of Set / SetNX / LoadAcl on the Go value *)
DataType(value) ==
    CASE value.t = "array"  -> "array"
      [] value.t = "object" -> "object"
      [] OTHER              -> "string"

Exists(it, key) == it[key] # NoItem

(* item.Expiration > 0 && time.Now().UnixNano() > item.Expiration *)
Expired(item, t) == item.Expiration > 0 /\ t > item.Expiration

(* A store that keeps the item a key already has *)
InstallKeepFirst(st, key, value, ttl, t) ==
    IF Exists(st.it, key) THEN st
    ELSE LET item == [Value |-> value, Expiration |-> IF ttl > 0 THEN t + ttl ELSE 0,
                      index |-> 0, Type |-> DataType(value)]
             s1   == [h |-> st.h, it |-> [st.it EXCEPT ![key] = item]]
         IN  IF ttl > 0 THEN HeapPush(s1, key, t + ttl) ELSE s1

(* The critical section shared by Set and SetNX once the key may be        *)
(* written: build the item, push it when ttl > 0, store it                 *)
(* A Set that takes every nonzero ttl for an expiry, a negative one for a *)
(* time in the past                                                        *)
InstallSigned(st, key, value, ttl, t) ==
    LET item == [Value |-> CompressValue(value), Expiration |-> IF ttl # 0 THEN t + ttl ELSE 0,
                 index |-> 0, Type |-> DataType(value)]
        s1   == [h |-> Unlink(st.h, key), it |-> [st.it EXCEPT ![key] = item]]
    IN  IF ttl # 0 THEN HeapPush(s1, key, t + ttl) ELSE s1

Install(st, key, value, ttl, t) ==
    LET item == [Value |-> CompressValue(value), Expiration |-> IF ttl > 0 THEN t + ttl ELSE 0,
                 index |-> 0, Type |-> DataType(value)]
        s1   == [h |-> Unlink(st.h, key), it |-> [st.it EXCEPT ![key] = item]]
    IN  IF ttl > 0 THEN HeapPush(s1, key, t + ttl) ELSE s1

(* Go strings: sequences of one-character strings.  The operators below   *)
(* are the functions of package strings and strconv the persistence        *)
(* manager calls.                                                          *)
Space == {" ", "\t", "\n", "\r"}
Digits == <<"0", "1", "2", "3", "4", "5", "6", "7", "8", "9">>

(* Position of the first c in s, 0 when there is none *)
IndexOf(s, c) ==
    IF \E i \in 1..Len(s) : s[i] = c
    THEN CHOOSE i \in 1..Len(s) : s[i] = c /\ \A j \in 1..(i - 1) : s[j] # c
    ELSE 0

Contains(s, c) == IndexOf(s, c) > 0

HasPrefix(s, pre) == Len(s) >= Len(pre) /\ SubSeq(s, 1, Len(pre)) = pre
HasSuffix(s, suf) == Len(s) >= Len(suf) /\ SubSeq(s, Len(s) - Len(suf) + 1, Len(s)) = suf
TrimPrefix(s, pre) == IF HasPrefix(s, pre) THEN SubSeq(s, Len(pre) + 1, Len(s)) ELSE s
TrimSuffix(s, suf) == IF HasSuffix(s, suf) THEN SubSeq(s, 1, Len(s) - Len(suf)) ELSE s

RECURSIVE TrimLeft(_, _)
TrimLeft(s, cutset) ==
    IF s # <<>> /\ s[1] \in cutset THEN TrimLeft(Tail(s), cutset) ELSE s

RECURSIVE TrimRight(_, _)
TrimRight(s, cutset) ==
    IF s # <<>> /\ s[Len(s)] \in cutset THEN TrimRight(SubSeq(s, 1, Len(s) - 1), cutset) ELSE s

(* strings.Trim(s, cutset) and strings.TrimSpace(s) *)
Trim(s, cutset) == TrimRight(TrimLeft(s, cutset), cutset)
TrimSpace(s) == Trim(s, Space)

(* strings.Split(s, sep) for a one-character separator *)
RECURSIVE Split(_, _)
Split(s, c) ==
    LET i == IndexOf(s, c)
    IN  IF i = 0 THEN <<s>>
        ELSE <<SubSeq(s, 1, i - 1)>> \o Split(SubSeq(s, i + 1, Len(s)), c)

(* strings.SplitN(s, sep, 2) for a one-character separator *)
SplitN2(s, c) ==
    LET i == IndexOf(s, c)
    IN  IF i = 0 THEN <<s>> ELSE <<SubSeq(s, 1, i - 1), SubSeq(s, i + 1, Len(s))>>

(* strings.Fields(s): the maximal runs of non-space characters *)
RECURSIVE Fields(_)
Fields(s) ==
    LET t == TrimLeft(s, Space)
        e == IF \E i \in 1..Len(t) : t[i] \in Space
             THEN CHOOSE i \in 1..Len(t) : t[i] \in Space /\ \A j \in 1..(i - 1) : t[j] \notin Space
             ELSE Len(t) + 1
    IN  IF t = <<>> THEN <<>>
        ELSE <<SubSeq(t, 1, e - 1)>> \o Fields(SubSeq(t, e, Len(t)))

(* strings.Join(elems, sep) *)
RECURSIVE Join(_, _)
Join(elems, sep) ==
    IF elems = <<>> THEN <<>>
    ELSE IF Len(elems) = 1 THEN elems[1]
    ELSE elems[1] \o sep \o Join(Tail(elems), sep)

(* %d of a signed integer *)
RECURSIVE Itoa(_)
Itoa(n) ==
    IF n < 0 THEN <<"-">> \o Itoa(0 - n)
    ELSE IF n < 10 THEN <<Digits[n + 1]>>
    ELSE Itoa(n \div 10) \o <<Digits[(n % 10) + 1]>>

IsDigit(c) == \E d \in 1..10 : Digits[d] = c
DigitVal(c) == (CHOOSE d \in 1..10 : Digits[d] = c) - 1

RECURSIVE Atou(_)
Atou(s) == IF s = <<>> THEN 0 ELSE 10 * Atou(SubSeq(s, 1, Len(s) - 1)) + DigitVal(s[Len(s)])

(* strconv.ParseInt(s, 10, 64): [ok, n]; the model's numbers are far from  *)
(* the 64-bit range                                                        *)
ParseInt(s) ==
    LET body == IF s # <<>> /\ s[1] \in {"+", "-"} THEN Tail(s) ELSE s
    IN  IF body = <<>> \/ \E i \in 1..Len(body) : ~IsDigit(body[i])
        THEN [ok |-> FALSE, n |-> 0]
        ELSE [ok |-> TRUE, n |-> IF s[1] = "-" THEN 0 - Atou(body) ELSE Atou(body)]

(* An order of strings (byte-wise), used only to give a Go map one         *)
(* representation: its pairs in ascending key order                        *)
Alphabet == <<" ", ":", "[", "]", "a", "b", "j", "k", "m", "p", "|">>
Code(c) == IF \E i \in 1..Len(Alphabet) : Alphabet[i] = c
           THEN CHOOSE i \in 1..Len(Alphabet) : Alphabet[i] = c ELSE 0

RECURSIVE StrLess(_, _)
StrLess(x, y) ==
    IF y = <<>> THEN FALSE
    ELSE IF x = <<>> THEN TRUE
    ELSE IF x[1] # y[1] THEN Code(x[1]) < Code(y[1])
    ELSE StrLess(Tail(x), Tail(y))

(* The pairs <<k, v>> of an object value, in its representation's order *)
Pairs(a) == [i \in 1..(Len(a) \div 2) |-> <<a[2 * i - 1], a[2 * i]>>]

(* The Go map built by assigning the pairs in order (a later pair of the   *)
(* same key overwrites), as key, value, key, value... in key order         *)
RECURSIVE MapSeq(_, _)
MapSeq(ks, val) ==
    IF ks = {} THEN <<>>
    ELSE LET k == CHOOSE x \in ks : \A y \in ks \ {x} : StrLess(x, y)
         IN  <<k, val[k]>> \o MapSeq(ks \ {k}, val)

MapOf(pairs) ==
    LET ks == {pairs[i][1] : i \in 1..Len(pairs)}
        lastOf(k) == CHOOSE i \in 1..Len(pairs) :
                        pairs[i][1] = k /\ \A j \in (i + 1)..Len(pairs) : pairs[j][1] # k
    IN  MapSeq(ks, [k \in ks |-> pairs[lastOf(k)][2]])

(* The orders a range over a Go map of n entries may take *)
Orders(n) == {o \in [1..n -> 1..n] : \A i, j \in 1..n : o[i] = o[j] => i = j}

(* Command types, as the strings written to the log *)
CMD_SET == <<"S", "E", "T">>
CMD_SETS == <<"S", "E", "T", "S">>
CMD_SETX == <<"S", "E", "T", "X">>
CMD_SETNX == <<"S", "E", "T", "N", "X">>
CMD_DEL == <<"D", "E", "L">>
CMD_DELS == <<"D", "E", "L", "S">>
CMD_DELX == <<"D", "E", "L", "X">>

MaxChan == 3

(* A channel that hands out the newest command first *)
LogCommandFront(chan, cmdType, key, value, ttl, t) ==
    IF Len(chan) < MaxChan
    THEN <<[Timestamp |-> t, Type |-> cmdType, Key |-> key, Value |-> value, TTL |-> ttl]>> \o chan
    ELSE chan

(* PersistenceManager.LogCommand: a non-blocking send; a full channel      *)
(* drops the command                                                       *)
LogCommand(chan, cmdType, key, value, ttl, t) ==
    IF Len(chan) < MaxChan
    THEN Append(chan, [Timestamp |-> t, Type |-> cmdType, Key |-> key, Value |-> value, TTL |-> ttl])
    ELSE chan

(* A hook whose send waits for room in the channel *)
EmitBlocking(cmdType, key, value, ttl) ==
    /\ persistence
    /\ Len(commandChan) < MaxChan
    /\ commandChan' = LogCommand(commandChan, cmdType, key, value, ttl, now)
    /\ UNCHANGED <<persistence, pmState, writerAlive, aclFile, atdFile>>

(* A mutation's hook: c.persistence != nil => LogCommand.  A send on the   *)
(* closed channel (after Stop) panics.                                     *)
Emit(cmdType, key, value, ttl) ==
    IF ~persistence THEN UNCHANGED pmVars
    ELSE IF pmState = "stopped"
    THEN /\ pmState' = "panicked"
         /\ UNCHANGED <<persistence, commandChan, writerAlive, aclFile, atdFile>>
    ELSE /\ commandChan' = LogCommand(commandChan, cmdType, key, value, ttl, now)
         /\ UNCHANGED <<persistence, pmState, writerAlive, aclFile, atdFile>>

Alive == pmState \in {"running", "stopping", "stopped"}

EmptyStr == [t |-> "string", a |-> <<<<>>>>]

(* The observer of removals; "off" when the specification does not observe *)
Mark(g, keys, how) == [k \in Keys |-> IF k \in keys /\ g[k] # "off" THEN how ELSE g[k]]

(* The observer of Get hits: hit[key] is -2 when the specification does    *)
(* not observe, -1 when no Get of key returned a value since the last      *)
(* Set / SetNX of key, else the time of the first such Get                 *)
Forget(h, key) == IF h[key] = -2 THEN h ELSE [h EXCEPT ![key] = -1]
Observe(h, key, t) == IF h[key] = -1 THEN [h EXCEPT ![key] = t] ELSE h

Set(key, value, ttl) ==
    /\ Alive
    /\ ttl > 0 => Len(heap) < MaxHeap
    /\ LET s == Install([h |-> heap, it |-> items], key, value, ttl, now)
       IN  /\ items' = s.it
           /\ heap' = s.h
    /\ Emit(CMD_SET, key, value, ttl)
    /\ last' = [op |-> "Set", ret |-> TRUE]
    /\ hit' = Forget(hit, key)
    /\ gone' = Mark(gone, {key}, "")
    /\ UNCHANGED now

SetNX(key, value, ttl) ==
    /\ Alive
    /\ ttl > 0 => Len(heap) < MaxHeap
    /\ IF Exists(items, key) /\ ~Expired(items[key], now)
       THEN /\ last' = [op |-> "SetNX", ret |-> FALSE]
            /\ UNCHANGED <<items, heap, hit, now, pmVars, gone>>
       ELSE /\ LET s == Install([h |-> heap, it |-> items], key, value, ttl, now)
               IN  /\ items' = s.it
                   /\ heap' = s.h
            /\ Emit(CMD_SETNX, key, value, ttl)
            /\ last' = [op |-> "SetNX", ret |-> TRUE]
            /\ hit' = Forget(hit, key)
            /\ gone' = Mark(gone, {key}, "")
            /\ UNCHANGED now

(* What Get returns: <<value, found>> *)
GetResult(it, key, t) ==
    IF ~Exists(it, key) THEN <<EmptyStr, FALSE>>
    ELSE IF Expired(it[key], t) THEN <<EmptyStr, FALSE>>
    ELSE <<DecompressValue(it[key].Value), TRUE>>

Get(key) ==
    /\ Alive
    /\ last' = [op |-> "Get", ret |-> GetResult(items, key, now)]
    /\ hit' = IF GetResult(items, key, now)[2] THEN Observe(hit, key, now) ELSE hit
    /\ UNCHANGED <<items, heap, now, pmVars, gone>>

(* What GetMultiple returns, as the set of <<key, value>> of the result map *)
GetMultipleResult(it, keys, t) ==
    {<<k, DecompressValue(it[k].Value)>> : k \in {x \in keys : Exists(it, x) /\ ~Expired(it[x], t)}}

GetMultiple(keys) ==
    /\ Alive
    /\ last' = [op |-> "GetMultiple", ret |-> GetMultipleResult(items, keys, now)]
    /\ UNCHANGED <<items, heap, now, hit, pmVars, gone>>

(* What GetAllKeys returns, as the set of <<key, type>> of its entries *)
GetAllKeysResult(it, t) ==
    {<<k, it[k].Type>> : k \in {x \in Keys : Exists(it, x) /\ ~(it[x].Expiration > 0 /\ it[x].Expiration < t)}}

GetAllKeys ==
    /\ Alive
    /\ last' = [op |-> "GetAllKeys", ret |-> GetAllKeysResult(items, now)]
    /\ UNCHANGED <<items, heap, now, hit, pmVars, gone>>

Delete(key) ==
    /\ Alive
    /\ IF Exists(items, key)
       THEN /\ LET item == items[key]
                   s == IF item.Expiration > 0 /\ item.index >= 0
                        THEN HeapRemove([h |-> heap, it |-> items], item.index)
                        ELSE [h |-> heap, it |-> items]
               IN  /\ items' = [s.it EXCEPT ![key] = NoItem]
                   /\ heap' = Unlink(s.h, key)
            /\ Emit(CMD_DEL, key, EmptyStr, 0)
            /\ last' = [op |-> "Delete", ret |-> TRUE]
            /\ gone' = Mark(gone, {key}, "del")
            /\ UNCHANGED <<now, hit>>
       ELSE /\ last' = [op |-> "Delete", ret |-> FALSE]
            /\ UNCHANGED <<items, heap, now, hit, pmVars, gone>>

(* A sweep that leaves an entry expiring at exactly t in place *)
RECURSIVE CleanupLoopStrict(_, _)
CleanupLoopStrict(st, t) ==
    IF Len(st.h) = 0 THEN st
    ELSE LET item == st.h[1]
             s1 == HeapPop(st)
         IN  IF item.exp >= t THEN st
             ELSE CleanupLoopStrict([h |-> Unlink(s1.h, item.key),
                                     it |-> [s1.it EXCEPT ![item.key] = NoItem]], t)

(* The loop of Cleanup *)
RECURSIVE CleanupLoop(_, _)
CleanupLoop(st, t) ==
    IF Len(st.h) = 0 THEN st
    ELSE LET item == st.h[1]
             s1 == HeapPop(st)
         IN  IF item.exp > t THEN st
             ELSE CleanupLoop([h |-> Unlink(s1.h, item.key),
                               it |-> [s1.it EXCEPT ![item.key] = NoItem]], t)

Cleanup ==
    /\ Alive
    /\ LET s == CleanupLoop([h |-> heap, it |-> items], now)
       IN  /\ items' = s.it
           /\ heap' = s.h
    /\ last' = [op |-> "Cleanup", ret |-> Len(heap) - Len(heap')]
    /\ UNCHANGED <<now, hit, pmVars, gone>>

FlushAll ==
    /\ Alive
    /\ items' = [k \in Keys |-> NoItem]
    /\ heap' = <<>>
    /\ last' = [op |-> "FlushAll", ret |-> Cardinality({k \in Keys : Exists(items, k)})]
    /\ gone' = Mark(gone, {k \in Keys : Exists(items, k)}, "flush")
    /\ UNCHANGED <<now, hit, pmVars>>

(* The clock advances *)
Tick(limit) ==
    /\ now < limit
    /\ now' = now + 1
    /\ last' = [op |-> "Tick", ret |-> TRUE]
    /\ UNCHANGED <<items, heap, hit, pmVars, gone>>

----------------------------------------------------------------------------
(* The persistence manager.  The ACL file is its bytes; the ATD file is    *)
(* the decoded frame [magic, version, records, end] (gzip and the length   *)
(* prefixes are not modelled: the model's strings are far below 2^16       *)
(* bytes).  The ACL stays below maxAclFileSize, so no file is rotated.     *)

MAGIC_HEADER == 1095652419
VERSION == 1

(* The value literal writeCommandToAcl formats; ord is the order the range *)
(* over a map value takes                                                  *)
FormatValue(v, ord) ==
    CASE v.t = "array"  -> <<"[">> \o Join(v.a, <<" ">>) \o <<"]">>
      [] v.t = "object" ->
            LET ps == Pairs(v.a)
            IN  <<"m", "a", "p", "[">>
                \o Join([i \in 1..Len(ps) |-> ps[ord[i]][1] \o <<":">> \o ps[ord[i]][2]], <<" ">>)
                \o <<"]">>
      [] OTHER          -> v.a[1]

(* The line writeCommandToAcl appends *)
FormatLine(cmd, ord) ==
    Itoa(cmd.Timestamp) \o <<"|">> \o cmd.Type \o <<"|">> \o cmd.Key \o <<"|">>
    \o FormatValue(cmd.Value, ord) \o <<"|">> \o Itoa(cmd.TTL) \o <<"\n">>

NumPairs(v) == IF v.t = "object" THEN Len(v.a) \div 2 ELSE 0

(* processCommands: receive one command and append it to the ACL *)
ProcessCommands ==
    /\ writerAlive
    /\ commandChan # <<>>
    /\ \E ord \in Orders(NumPairs(Head(commandChan).Value)) :
          aclFile' = aclFile \o FormatLine(Head(commandChan), ord)
    /\ commandChan' = Tail(commandChan)
    /\ UNCHANGED <<last, items, heap, now, hit, gone, persistence, pmState, writerAlive, atdFile>>

(* processCommands: the select takes <-pm.stopChan and the goroutine       *)
(* returns, whatever is still queued                                       *)
ProcessCommandsReturn ==
    /\ writerAlive
    /\ pmState \in {"stopping", "stopped"}
    /\ writerAlive' = FALSE
    /\ UNCHANGED <<last, items, heap, now, hit, gone, persistence, commandChan, pmState, aclFile, atdFile>>

(* The frame SaveAtd writes: the items not expired, in the order ks the    *)
(* range over c.items takes                                                *)
AtdTag(value) ==
    CASE value.t = "array"  -> 2
      [] value.t = "object" -> 3
      [] OTHER              -> 1

RECURSIVE AtdRecords(_, _, _)
AtdRecords(it, ks, t) ==
    IF ks = <<>> THEN <<>>
    ELSE LET k == Head(ks)
         IN  (IF Expired(it[k], t) THEN <<>>
              ELSE <<[key |-> k, tag |-> AtdTag(it[k].Value), data |-> it[k].Value.a,
                      exp |-> it[k].Expiration]>>)
             \o AtdRecords(it, Tail(ks), t)

KeyOrders(it) ==
    LET present == {k \in Keys : Exists(it, k)}
    IN  {ks \in UNION {[1..n -> present] : n \in {Cardinality(present)}} :
            \A i, j \in 1..Len(ks) : ks[i] = ks[j] => i = j}

SaveAtd(it, ks, t) ==
    [magic |-> MAGIC_HEADER, version |-> VERSION, records |-> AtdRecords(it, ks, t), end |-> TRUE]

(* The commands sent by now: those in the channel and the lines written *)
Logged == Len(commandChan) + Cardinality({i \in 1..Len(aclFile) : aclFile[i] = "\n"})

(* Stop up to its Sleep: close(pm.stopChan) *)
StopBegin ==
    /\ persistence
    /\ pmState = "running"
    /\ pmState' = "stopping"
    /\ last' = [op |-> "Stop", ret |-> Logged]
    /\ UNCHANGED <<items, heap, now, hit, gone, persistence, commandChan, writerAlive, aclFile, atdFile>>

(* Stop after its Sleep: close(pm.commandChan), SaveAtd, flushAcl (with    *)
(* one ACL file compactAclFiles returns at once)                           *)
StopFinish ==
    /\ pmState = "stopping"
    /\ pmState' = "stopped"
    /\ \E ks \in KeyOrders(items) : atdFile' = SaveAtd(items, ks, now)
    /\ UNCHANGED <<last, items, heap, now, hit, gone, persistence, commandChan, writerAlive, aclFile>>

(* readAtdValue: the Go value of a record *)
AtdValue(rec) ==
    CASE rec.tag = 2 -> ArrVal(rec.data)
      [] rec.tag = 3 -> ObjVal(rec.data)
      [] OTHER       -> StrVal(rec.data[1])

(* The record loop of LoadAtd with readAtdItem: an expired record is       *)
(* skipped, the others are stored (Type is left unset) and pushed          *)
RECURSIVE LoadAtdRecords(_, _, _)
LoadAtdRecords(st, recs, t) ==
    IF recs = <<>> THEN st
    ELSE LET r == Head(recs)
             item == [Value |-> AtdValue(r), Expiration |-> r.exp, index |-> 0, Type |-> ""]
             s1 == [h |-> Unlink(st.h, r.key), it |-> [st.it EXCEPT ![r.key] = item]]
             s2 == IF r.exp > 0 /\ t > r.exp THEN st
                   ELSE IF r.exp > 0 THEN HeapPush(s1, r.key, r.exp)
                   ELSE s1
         IN  LoadAtdRecords(s2, Tail(recs), t)

(* LoadAtd: no file or a bad header leaves the keyspace as it is *)
LoadAtd(st, file, t) ==
    IF file = NoFile THEN st
    ELSE IF file.magic # MAGIC_HEADER \/ file.version # VERSION THEN st
    ELSE LoadAtdRecords([h |-> <<>>, it |-> [k \in Keys |-> NoItem]], file.records, t)

(* The value LoadAcl parses from a value literal *)
ParseValue(valueStr) ==
    IF HasPrefix(valueStr, <<"[">>) /\ HasSuffix(valueStr, <<"]">>)
    THEN ArrVal(Fields(Trim(valueStr, {"[", "]"})))
    ELSE IF HasPrefix(valueStr, <<"m", "a", "p", "[">>) /\ Contains(valueStr, ":")
    THEN LET content == TrimSuffix(TrimPrefix(valueStr, <<"m", "a", "p", "[">>), <<"]">>)
             fs == Fields(content)
             withColon == SelectSeq(fs, LAMBDA f : Contains(f, ":"))
         IN  ObjVal(MapOf([i \in 1..Len(withColon) |-> SplitN2(withColon[i], ":")]))
    ELSE StrVal(valueStr)

(* LoadAcl, case CMD_DEL / CMD_DELS / CMD_DELX: delete the key when its    *)
(* item has the type the verb names                                        *)
ReplayDel(st, key, type) ==
    IF Exists(st.it, key) /\ st.it[key].Type = type
    THEN LET item == st.it[key]
             s1 == IF item.Expiration > 0 /\ item.index >= 0
                   THEN HeapRemove(st, item.index) ELSE st
         IN  [h |-> Unlink(s1.h, key), it |-> [s1.it EXCEPT ![key] = NoItem]]
    ELSE st

(* LoadAcl, case CMD_SET, CMD_SETS, CMD_SETX *)
ReplaySet(st, key, value, ttl, t) ==
    LET item == [Value |-> value, Expiration |-> IF ttl > 0 THEN t + ttl ELSE 0,
                 index |-> 0, Type |-> DataType(value)]
        s1   == [h |-> Unlink(st.h, key), it |-> [st.it EXCEPT ![key] = item]]
    IN  IF ttl > 0 THEN HeapPush(s1, key, t + ttl) ELSE s1

(* LoadAcl: one line of the file *)
ReplayLine(st, rawLine, t) ==
    LET line  == TrimSpace(rawLine)
        parts == Split(line, "|")
    IN  IF line = <<>> THEN st
        ELSE IF Len(parts) # 5 THEN st
        ELSE IF ~ParseInt(parts[1]).ok THEN st
        ELSE IF ~ParseInt(parts[5]).ok THEN st
        ELSE LET ttl == ParseInt(parts[5]).n
                 cmdType == parts[2]
                 key == parts[3]
                 value == ParseValue(parts[4])
             IN  IF key \notin Keys THEN st
                 ELSE IF cmdType \in {CMD_SET, CMD_SETS, CMD_SETX} THEN ReplaySet(st, key, value, ttl, t)
                 ELSE IF cmdType = CMD_DEL THEN ReplayDel(st, key, "string")
                 ELSE IF cmdType = CMD_DELS THEN ReplayDel(st, key, "array")
                 ELSE IF cmdType = CMD_DELX THEN ReplayDel(st, key, "object")
                 ELSE st

RECURSIVE ReplayLines(_, _, _)
ReplayLines(st, lines, t) ==
    IF lines = <<>> THEN st ELSE ReplayLines(ReplayLine(st, Head(lines), t), Tail(lines), t)

(* LoadAcl: no file is no error; else every line in file order *)
LoadAcl(st, file, t) == ReplayLines(st, Split(file, "\n"), t)

(* The process exits after Stop and a fresh one starts on the same files:  *)
(* NewWithPersistence = New, LoadAtd, LoadAcl, Start                       *)
Restart ==
    /\ pmState = "stopped"
    /\ LET s == LoadAcl(LoadAtd([h |-> <<>>, it |-> [k \in Keys |-> NoItem]], atdFile, now), aclFile, now)
       IN  /\ items' = s.it
           /\ heap' = s.h
    /\ commandChan' = <<>>
    /\ writerAlive' = TRUE
    /\ pmState' = "running"
    /\ hit' = [k \in Keys |-> -2]
    /\ last' = [op |-> "Restart", ret |-> TRUE]
    /\ UNCHANGED <<now, gone, persistence, aclFile, atdFile>>

----------------------------------------------------------------------------
(* The keyspace alone: cache.New(), no persistence manager *)

Conns == {1, 2}
NoCall == [key |-> <<>>, value |-> EmptyStr, ttl |-> 0, conc |-> FALSE, ret |-> FALSE]

(* No connection has called, and no server has answered *)
InitCalls ==
    /\ mu = 0
    /\ pc = [c \in Conns |-> "idle"]
    /\ call = [c \in Conns |-> NoCall]
    /\ muts = <<>>
    /\ authenticated = [c \in Conns |-> FALSE]
    /\ request = [conn |-> 0, line |-> <<>>]
    /\ response = <<>>

InitKeyspace ==
    /\ items = [k \in Keys |-> NoItem]
    /\ heap = <<>>
    /\ now = 0
    /\ last = [op |-> "New", ret |-> TRUE]

InitCache ==
    /\ InitKeyspace
    /\ InitCalls
    /\ strategy = "single-goroutine"
    /\ authManager = NoAuthManager
    /\ pool = NoPool

InitNoPersistence ==
    /\ compact = NoCompact
    /\ mutex = NoMutex
    /\ persistence = FALSE
    /\ commandChan = <<>>
    /\ pmState = "running"
    /\ writerAlive = FALSE
    /\ aclFile = <<>>
    /\ atdFile = NoFile
    /\ gone = [k \in Keys |-> "off"]

Init ==
    /\ InitCache
    /\ hit = [k \in Keys |-> -2]
    /\ InitNoPersistence

Next ==
    \/ \E k \in Keys, v \in CoreValues, ttl \in TTLs : Set(k, v, ttl) /\ UNCHANGED connVars
    \/ \E k \in Keys, v \in CoreValues, ttl \in TTLs : SetNX(k, v, ttl) /\ UNCHANGED connVars
    \/ \E k \in Keys : Get(k) /\ UNCHANGED connVars
    \/ \E ks \in SUBSET Keys : GetMultiple(ks) /\ UNCHANGED connVars
    \/ GetAllKeys /\ UNCHANGED connVars
    \/ \E k \in Keys : Delete(k) /\ UNCHANGED connVars
    \/ Cleanup /\ UNCHANGED connVars
    \/ FlushAll /\ UNCHANGED connVars
    \/ Tick(MaxTime) /\ UNCHANGED connVars

Spec == Init /\ [][Next]_vars

(* The keyspace alone, one key, with the observer of Get hits switched on *)
MonoKeys == {<<"k">>}

InitMono ==
    /\ InitCache
    /\ hit = [k \in Keys |-> -1]
    /\ InitNoPersistence

NextMono ==
    \/ \E k \in MonoKeys, v \in CoreValues, ttl \in TTLs : Set(k, v, ttl) /\ UNCHANGED connVars
    \/ \E k \in MonoKeys, v \in CoreValues, ttl \in TTLs : SetNX(k, v, ttl) /\ UNCHANGED connVars
    \/ \E k \in MonoKeys : Get(k) /\ UNCHANGED connVars
    \/ \E k \in MonoKeys : Delete(k) /\ UNCHANGED connVars
    \/ Cleanup /\ UNCHANGED connVars
    \/ FlushAll /\ UNCHANGED connVars
    \/ Tick(MaxTime) /\ UNCHANGED connVars

SpecMono == InitMono /\ [][NextMono]_vars

(* The keyspace with its persistence manager: NewWithPersistence on no    *)
(* files, then mutations, sweeps, the writer, Stop and restarts            *)
MaxLog == 2
MaxTimeP == 1
DKeys == {<<"k">>}

PTTLs == {0, 1}

InitPm ==
    /\ compact = NoCompact
    /\ mutex = NoMutex
    /\ persistence = TRUE
    /\ commandChan = <<>>
    /\ pmState = "running"
    /\ writerAlive = TRUE
    /\ aclFile = <<>>
    /\ atdFile = NoFile

InitP ==
    /\ InitCache
    /\ InitPm
    /\ hit = [k \in Keys |-> -2]
    /\ gone = [k \in Keys |-> "off"]

NextP ==
    \/ \E k \in DKeys, v \in CoreValues, ttl \in PTTLs : Logged < MaxLog /\ Set(k, v, ttl) /\ UNCHANGED connVars
    \/ \E k \in DKeys, v \in CoreValues, ttl \in PTTLs : Logged < MaxLog /\ SetNX(k, v, ttl) /\ UNCHANGED connVars
    \/ \E k \in DKeys : Logged < MaxLog /\ Delete(k) /\ UNCHANGED connVars
    \/ Cleanup /\ UNCHANGED connVars
    \/ FlushAll /\ UNCHANGED connVars
    \/ Tick(MaxTimeP) /\ UNCHANGED connVars
    \/ ProcessCommands /\ UNCHANGED connVars
    \/ ProcessCommandsReturn /\ UNCHANGED connVars
    \/ StopBegin /\ UNCHANGED connVars
    \/ StopFinish /\ UNCHANGED connVars
    \/ Restart /\ UNCHANGED connVars

SpecP == InitP /\ [][NextP]_vars

(* Durability of values: the same without expiry (every ttl is 0 and the   *)
(* clock stands), over the three value types, with the observers on        *)
DValues == {StrVal(<<"a">>), ArrVal(<<<<"a">>>>), ObjVal(<<<<"a">>, <<"b">>>>)}

InitD ==
    /\ InitCache
    /\ InitPm
    /\ hit = [k \in Keys |-> -2]
    /\ gone = [k \in Keys |-> ""]

NextD ==
    \/ \E k \in DKeys, v \in DValues : Logged < MaxLog /\ Set(k, v, 0) /\ UNCHANGED connVars
    \/ \E k \in DKeys, v \in DValues : Logged < MaxLog /\ SetNX(k, v, 0) /\ UNCHANGED connVars
    \/ \E k \in DKeys : Logged < MaxLog /\ Delete(k) /\ UNCHANGED connVars
    \/ FlushAll /\ UNCHANGED connVars
    \/ ProcessCommands /\ UNCHANGED connVars
    \/ ProcessCommandsReturn /\ UNCHANGED connVars
    \/ StopBegin /\ UNCHANGED connVars
    \/ StopFinish /\ UNCHANGED connVars
    \/ Restart /\ UNCHANGED connVars

SpecD == InitD /\ [][NextD]_vars

(* Durability of values whose text looks like another type's literal or    *)
(* holds a separator: the same process with these values logged            *)
LogValues ==
    {StrVal(<<"a">>), StrVal(<<"[", "a", "]">>), StrVal(<<"m", "a", "p", "[", "a", ":", "b", "]">>),
     StrVal(<<"a", "|", "b">>), ArrVal(<<<<"a">>, <<"b">>>>), ArrVal(<<<<"a", " ", "b">>>>),
     ObjVal(<<<<"a">>, <<"b">>>>)}

NextV ==
    \/ \E k \in DKeys, v \in LogValues : Logged < MaxLog /\ Set(k, v, 0) /\ UNCHANGED connVars
    \/ \E k \in DKeys : Logged < MaxLog /\ Delete(k) /\ UNCHANGED connVars
    \/ ProcessCommands /\ UNCHANGED connVars
    \/ StopBegin /\ UNCHANGED connVars
    \/ StopFinish /\ UNCHANGED connVars
    \/ Restart /\ UNCHANGED connVars

SpecV == InitD /\ [][NextV]_vars

(* Startup on a snapshot file that another program or version wrote: while *)
(* the process is down the file's header comes to hold a magic number or a *)
(* version that readAtdHeader does not accept                              *)
BadHeaders == {[magic |-> 0, version |-> VERSION], [magic |-> MAGIC_HEADER, version |-> VERSION + 1]}

Damage(header) ==
    /\ pmState = "stopped"
    /\ atdFile # NoFile
    /\ atdFile.magic = MAGIC_HEADER /\ atdFile.version = VERSION
    /\ atdFile' = [atdFile EXCEPT !.magic = header.magic, !.version = header.version]
    /\ last' = [op |-> "Damage", ret |-> TRUE]
    /\ UNCHANGED <<items, heap, now, hit, gone, persistence, commandChan, pmState, writerAlive, aclFile>>

NextH ==
    \/ \E k \in DKeys, v \in DValues : Logged < MaxLog /\ Set(k, v, 0) /\ UNCHANGED connVars
    \/ \E k \in DKeys : Logged < MaxLog /\ Delete(k) /\ UNCHANGED connVars
    \/ ProcessCommands /\ UNCHANGED connVars
    \/ StopBegin /\ UNCHANGED connVars
    \/ StopFinish /\ UNCHANGED connVars
    \/ \E header \in BadHeaders : Damage(header) /\ UNCHANGED connVars
    \/ Restart /\ UNCHANGED connVars

SpecH == InitD /\ [][NextH]_vars

(* Snapshots while the server runs.  SaveAtd writes a temp file and        *)
(* renames it over the snapshot.  fail names the I/O step that fails, or   *)
(* "none".  A failed create, header, item, end-marker write or rename      *)
(* returns before or at the rename and leaves the snapshot as it is.  The  *)
(* results of the last writer.Flush(), gzipWriter.Close() and file.Close() *)
(* are not looked at: the rename follows, over a temp file that holds the  *)
(* header and the first n records.                                         *)
AtdFailures == {"create", "header", "item", "end", "flush", "close", "rename"}

SaveAtdFile(old, it, ks, t, fail, n) ==
    IF fail = "none" THEN SaveAtd(it, ks, t)
    ELSE IF fail \in {"flush", "close"}
    THEN [magic |-> MAGIC_HEADER, version |-> VERSION,
          records |-> SubSeq(AtdRecords(it, ks, t), 1, n), end |-> FALSE]
    ELSE old

(* periodicAtd: the ticker fires and SaveAtd runs *)
PeriodicAtd(fail) ==
    /\ persistence
    /\ pmState = "running"
    /\ \E ks \in KeyOrders(items) :
          \E n \in 0..Len(AtdRecords(items, ks, now)) :
             atdFile' = SaveAtdFile(atdFile, items, ks, now, fail, n)
    /\ last' = [op |-> "SaveAtd", ret |-> fail]
    /\ UNCHANGED <<items, heap, now, hit, gone, persistence, commandChan, pmState, writerAlive, aclFile>>

(* SaveAtd of the keyspace, then LoadAtd of that file into a clean         *)
(* keyspace, which takes the place of the keyspace                         *)
RoundTrip ==
    /\ persistence
    /\ pmState = "running"
    /\ \E ks \in KeyOrders(items) :
          LET s == LoadAtd([h |-> <<>>, it |-> [k \in Keys |-> NoItem]], SaveAtd(items, ks, now), now)
          IN  /\ items' = s.it
              /\ heap' = s.h
    /\ last' = [op |-> "RoundTrip", ret |-> TRUE]
    /\ UNCHANGED <<now, hit, gone, pmVars>>

InitS == InitP

NextS ==
    \/ \E k \in Keys, v \in DValues, ttl \in PTTLs : Logged < MaxLog /\ Set(k, v, ttl) /\ UNCHANGED connVars
    \/ \E k \in Keys : Logged < MaxLog /\ Delete(k) /\ UNCHANGED connVars
    \/ Tick(MaxTimeP) /\ UNCHANGED connVars
    \/ \E f \in AtdFailures \cup {"none"} : PeriodicAtd(f) /\ UNCHANGED connVars
    \/ RoundTrip /\ UNCHANGED connVars

SpecS == InitS /\ [][NextS]_vars

(* Two connections, each calling Cache.SetNX once, step by step: the call  *)
(* is issued, takes c.mu, looks the key up, stores, and releases c.mu on   *)
(* return.  The clock advances only between calls.                         *)
NXValues == <<StrVal(<<"a">>), StrVal(<<"b">>)>>

(* A lock that excludes no one *)
MuFreeAlways(m) == TRUE

(* c.mu.Lock() proceeds when no connection holds c.mu *)
MuFree(m) == m = 0

InFlight(c) == pc[c] \notin {"idle", "done"}

NXCall(c, key, value, ttl) ==
    /\ pc[c] = "idle"
    /\ pc' = [pc EXCEPT ![c] = "lock"]
    /\ call' = [call EXCEPT ![c] = [key |-> key, value |-> value, ttl |-> ttl,
                                    conc |-> \E d \in Conns \ {c} : InFlight(d), ret |-> FALSE]]
    /\ UNCHANGED <<items, heap, now, last, hit, pmVars, gone, mu>>
    /\ UNCHANGED <<muts, srvVars, compact, mutex>>

NXLock(c) ==
    /\ pc[c] = "lock"
    /\ MuFree(mu)
    /\ mu' = c
    /\ pc' = [pc EXCEPT ![c] = "check"]
    /\ UNCHANGED <<items, heap, now, last, hit, pmVars, gone, call>>
    /\ UNCHANGED <<muts, srvVars, compact, mutex>>

NXCheck(c) ==
    /\ pc[c] = "check"
    /\ IF Exists(items, call[c].key) /\ ~Expired(items[call[c].key], now)
       THEN /\ call' = [call EXCEPT ![c].ret = FALSE]
            /\ pc' = [pc EXCEPT ![c] = "done"]
            /\ mu' = 0
       ELSE /\ pc' = [pc EXCEPT ![c] = "store"]
            /\ UNCHANGED <<call, mu>>
    /\ UNCHANGED <<items, heap, now, last, hit, pmVars, gone>>
    /\ UNCHANGED <<muts, srvVars, compact, mutex>>

NXStore(c) ==
    /\ pc[c] = "store"
    /\ LET s == Install([h |-> heap, it |-> items], call[c].key, call[c].value, call[c].ttl, now)
       IN  /\ items' = s.it
           /\ heap' = s.h
    /\ Emit(CMD_SETNX, call[c].key, call[c].value, call[c].ttl)
    /\ call' = [call EXCEPT ![c].ret = TRUE]
    /\ pc' = [pc EXCEPT ![c] = "done"]
    /\ mu' = 0
    /\ UNCHANGED <<now, last, hit, gone>>
    /\ UNCHANGED <<muts, srvVars, compact, mutex>>

(* A connection calling Cache.Set, step by step: the call is issued, takes *)
(* c.mu, builds and stores the item, logs the command and releases c.mu on *)
(* return.  A connection may call again once its call has returned.        *)
MaxMuts == 4

SetCall(c, key, value, ttl) ==
    /\ pc[c] \in {"idle", "done"}
    /\ Alive
    /\ Len(muts) + Cardinality({d \in Conns : InFlight(d)}) < MaxMuts
    /\ ttl > 0 => Len(heap) + Cardinality({d \in Conns : InFlight(d)}) < MaxHeap
    /\ pc' = [pc EXCEPT ![c] = "slock"]
    /\ call' = [call EXCEPT ![c] = [key |-> key, value |-> value, ttl |-> ttl,
                                    conc |-> \E d \in Conns \ {c} : InFlight(d), ret |-> FALSE]]
    /\ UNCHANGED <<items, heap, now, last, hit, pmVars, gone, mu, muts, srvVars, compact, mutex>>

SetLock(c) ==
    /\ pc[c] = "slock"
    /\ MuFree(mu)
    /\ mu' = c
    /\ pc' = [pc EXCEPT ![c] = "sstore"]
    /\ UNCHANGED <<items, heap, now, last, hit, pmVars, gone, call, muts, srvVars, compact, mutex>>

SetStore(c) ==
    /\ pc[c] = "sstore"
    /\ LET s == Install([h |-> heap, it |-> items], call[c].key, call[c].value, call[c].ttl, now)
       IN  /\ items' = s.it
           /\ heap' = s.h
    /\ muts' = Append(muts, [Timestamp |-> now, Type |-> CMD_SET, Key |-> call[c].key,
                             Value |-> call[c].value, TTL |-> call[c].ttl])
    /\ pc' = [pc EXCEPT ![c] = "slog"]
    /\ UNCHANGED <<now, last, hit, pmVars, gone, mu, call, srvVars, compact, mutex>>

SetLog(c) ==
    /\ pc[c] = "slog"
    /\ Emit(CMD_SET, call[c].key, call[c].value, call[c].ttl)
    /\ call' = [call EXCEPT ![c].ret = TRUE]
    /\ pc' = [pc EXCEPT ![c] = "done"]
    /\ mu' = 0
    /\ UNCHANGED <<items, heap, now, last, hit, gone, muts, srvVars, compact, mutex>>

InitSet == InitP

NextSet ==
    \/ \E c \in Conns, k \in DKeys, ttl \in PTTLs : SetCall(c, k, NXValues[c], ttl)
    \/ \E c \in Conns : SetLock(c)
    \/ \E c \in Conns : SetStore(c)
    \/ \E c \in Conns : SetLog(c)
    \/ \E k \in DKeys : MuFree(mu) /\ Get(k) /\ UNCHANGED connVars
    \/ ProcessCommands /\ UNCHANGED connVars

SpecSet == InitSet /\ [][NextSet]_vars

InitNX ==
    /\ InitCache
    /\ hit = [k \in Keys |-> -2]
    /\ InitNoPersistence

NextNX ==
    \/ \E c \in Conns, k \in Keys, ttl \in PTTLs : NXCall(c, k, NXValues[c], ttl)
    \/ \E c \in Conns : NXLock(c)
    \/ \E c \in Conns : NXCheck(c)
    \/ \E c \in Conns : NXStore(c)
    \/ \E k \in Keys : MuFree(mu) /\ Get(k) /\ UNCHANGED connVars
    \/ (\A c \in Conns : ~InFlight(c)) /\ Tick(MaxTimeP) /\ UNCHANGED connVars

SpecNX == InitNX /\ [][NextNX]_vars

(* The TCP server: a connection's handler reads a line, passes it to       *)
(* processCommandDirect with the connection's authenticated flag, and      *)
(* writes the response.  main starts one of two servers on the keyspace.   *)

(* The texts of the responses and errors, as Go strings *)
Reply ==
    [ERR_INVALID_FORMAT |->
        <<"E", "R", "R", "O", "R", " ", "i", "n", "v", "a", "l", "i", "d", " ", "c", "o", "m", "m", "a", "n", "d", " ", "f", "o", "r", "m", "a", "t", "\n">>,
     ERR_AUTH_REQUIRED |->
        <<"E", "R", "R", "O", "R", " ", "a", "u", "t", "h", "e", "n", "t", "i", "c", "a", "t", "i", "o", "n", " ", "r", "e", "q", "u", "i", "r", "e", "d", "\n">>,
     ERR_AUTH_USAGE |->
        <<"E", "R", "R", "O", "R", " ", "A", "U", "T", "H", " ", "r", "e", "q", "u", "i", "r", "e", "s", " ", "p", "a", "s", "s", "w", "o", "r", "d", "\n">>,
     ERR_AUTH_ERROR |->
        <<"E", "R", "R", "O", "R", " ", "a", "u", "t", "h", "e", "n", "t", "i", "c", "a", "t", "i", "o", "n", " ", "e", "r", "r", "o", "r", ":", " ">>,
     ERR_NO_PASSWORD |->
        <<"n", "o", " ", "p", "a", "s", "s", "w", "o", "r", "d", " ", "s", "e", "t">>,
     OK_AUTHENTICATED |->
        <<"O", "K", " ", "a", "u", "t", "h", "e", "n", "t", "i", "c", "a", "t", "e", "d", "\n">>,
     ERR_INVALID_PASSWORD |->
        <<"E", "R", "R", "O", "R", " ", "i", "n", "v", "a", "l", "i", "d", " ", "p", "a", "s", "s", "w", "o", "r", "d", "\n">>,
     OK_NO_AUTH |->
        <<"O", "K", " ", "n", "o", " ", "a", "u", "t", "h", "e", "n", "t", "i", "c", "a", "t", "i", "o", "n", " ", "r", "e", "q", "u", "i", "r", "e", "d", "\n">>,
     ERR_TTL_VALUE |->
        <<"i", "n", "v", "a", "l", "i", "d", " ", "t", "t", "l", " ", "v", "a", "l", "u", "e", ":", " ">>,
     ERR_TTL_FORMAT |->
        <<"i", "n", "v", "a", "l", "i", "d", " ", "T", "T", "L", " ", "f", "o", "r", "m", "a", "t", ":", " ">>,
     ERR_SET_USAGE |->
        <<"E", "R", "R", "O", "R", " ", "S", "E", "T", " ", "r", "e", "q", "u", "i", "r", "e", "s", " ", "k", "e", "y", " ", "a", "n", "d", " ", "v", "a", "l", "u", "e", "\n">>,
     ERR_SETS_USAGE |->
        <<"E", "R", "R", "O", "R", " ", "S", "E", "T", "S", " ", "r", "e", "q", "u", "i", "r", "e", "s", " ", "k", "e", "y", " ", "a", "n", "d", " ", "a", "t", " ", "l", "e", "a", "s", "t", " ", "o", "n", "e", " ", "a", "r", "r", "a", "y", " ", "e", "l", "e", "m", "e", "n", "t", "\n">>,
     ERR_SETX_USAGE |->
        <<"E", "R", "R", "O", "R", " ", "S", "E", "T", "X", " ", "r", "e", "q", "u", "i", "r", "e", "s", " ", "k", "e", "y", " ", "a", "n", "d", " ", "a", "t", " ", "l", "e", "a", "s", "t", " ", "o", "n", "e", " ", "k", "e", "y", "-", "v", "a", "l", "u", "e", " ", "p", "a", "i", "r", "\n">>,
     ERR_SETX_PAIRS |->
        <<"E", "R", "R", "O", "R", " ", "S", "E", "T", "X", " ", "r", "e", "q", "u", "i", "r", "e", "s", " ", "e", "v", "e", "n", " ", "n", "u", "m", "b", "e", "r", " ", "o", "f", " ", "a", "r", "g", "u", "m", "e", "n", "t", "s", " ", "f", "o", "r", " ", "k", "e", "y", "-", "v", "a", "l", "u", "e", " ", "p", "a", "i", "r", "s", "\n">>,
     ERR_GET_USAGE |->
        <<"E", "R", "R", "O", "R", " ", "G", "E", "T", " ", "r", "e", "q", "u", "i", "r", "e", "s", " ", "k", "e", "y", "\n">>,
     ERR_DEL_USAGE |->
        <<"E", "R", "R", "O", "R", " ", "D", "E", "L", " ", "r", "e", "q", "u", "i", "r", "e", "s", " ", "k", "e", "y", "\n">>,
     ERR_UNKNOWN |->
        <<"E", "R", "R", "O", "R", " ", "u", "n", "k", "n", "o", "w", "n", " ", "c", "o", "m", "m", "a", "n", "d", "\n">>,
     REPLY_OK |->
        <<"O", "K", "\n">>,
     REPLY_NULL |->
        <<"N", "U", "L", "L", "\n">>,
     REPLY_NOT_FOUND |->
        <<"N", "O", "T", "_", "F", "O", "U", "N", "D", "\n">>,
     REPLY_EMPTY |->
        <<"E", "M", "P", "T", "Y", "\n">>]

(* The ASCII letters *)
Letters ==
    [lower |-> <<"a", "b", "c", "d", "e", "f", "g", "h", "i", "j", "k", "l", "m", "n", "o", "p", "q", "r", "s", "t", "u", "v", "w", "x", "y", "z">>,
     upper |-> <<"A", "B", "C", "D", "E", "F", "G", "H", "I", "J", "K", "L", "M", "N", "O", "P", "Q", "R", "S", "T", "U", "V", "W", "X", "Y", "Z">>]

(* strings.ToUpper / strings.ToLower, on ASCII *)
ToUpper(s) ==
    [i \in 1..Len(s) |->
        IF \E n \in 1..26 : Letters.lower[n] = s[i]
        THEN Letters.upper[CHOOSE n \in 1..26 : Letters.lower[n] = s[i]] ELSE s[i]]
ToLower(s) ==
    [i \in 1..Len(s) |->
        IF \E n \in 1..26 : Letters.upper[n] = s[i]
        THEN Letters.lower[CHOOSE n \in 1..26 : Letters.upper[n] = s[i]] ELSE s[i]]

(* utils.ParseTTL: [err, ttl, msg]; one second is one unit of the clock *)
ParseTTL(ttlStr) ==
    LET low == ToLower(ttlStr)
        digits == SubSeq(low, 1, Len(low) - 1)
        unit == low[Len(low)]
        num == Atou(digits)
    IN  IF ttlStr = <<>> THEN [err |-> FALSE, ttl |-> 0, msg |-> <<>>]
        ELSE IF ParseInt(ttlStr).ok THEN [err |-> FALSE, ttl |-> ParseInt(ttlStr).n, msg |-> <<>>]
        ELSE IF ~(/\ Len(low) >= 2
                  /\ \A i \in 1..Len(digits) : IsDigit(digits[i])
                  /\ unit \in {"s", "m", "h", "d", "y"})
        THEN [err |-> TRUE, ttl |-> 0, msg |-> Reply.ERR_TTL_FORMAT \o ttlStr]
        ELSE [err |-> FALSE, msg |-> <<>>,
              ttl |-> CASE unit = "s" -> num
                        [] unit = "m" -> num * 60
                        [] unit = "h" -> num * 3600
                        [] unit = "d" -> num * 24 * 3600
                        [] unit = "y" -> num * 365 * 24 * 3600]

(* The loop of utils.ParseCommandWithQuotes from position i on *)
RECURSIVE ParseLoop(_, _, _, _, _, _)
ParseLoop(input, i, parts, current, inQuotes, quoteChar) ==
    IF i > Len(input)
    THEN IF Len(current) > 0 THEN Append(parts, current) ELSE parts
    ELSE LET char == input[i]
             blank(j) == input[j] = " " \/ input[j] = "\t"
             \* the last position of the run of blanks that starts at i
             skip == CHOOSE j \in i..Len(input) :
                        /\ \A n \in i..j : blank(n)
                        /\ j = Len(input) \/ ~blank(j + 1)
         IN  IF ~inQuotes
             THEN IF char = "\"" \/ char = "'"
                  THEN ParseLoop(input, i + 1, parts, current, TRUE, char)
                  ELSE IF blank(i)
                  THEN ParseLoop(input, skip + 1,
                                 IF Len(current) > 0 THEN Append(parts, current) ELSE parts,
                                 <<>>, FALSE, quoteChar)
                  ELSE ParseLoop(input, i + 1, parts, Append(current, char), FALSE, quoteChar)
             ELSE IF char = quoteChar
                  THEN ParseLoop(input, i + 1, parts, current, FALSE, "")
                  ELSE IF char = "\\" /\ i + 1 <= Len(input)
                  THEN ParseLoop(input, i + 2, parts,
                                 current \o (CASE input[i + 1] = "n"  -> <<"\n">>
                                               [] input[i + 1] = "t"  -> <<"\t">>
                                               [] input[i + 1] = "r"  -> <<"\r">>
                                               [] input[i + 1] = "\\" -> <<"\\">>
                                               [] input[i + 1] = "\"" -> <<"\"">>
                                               [] input[i + 1] = "'"  -> <<"'">>
                                               [] OTHER -> <<"\\", input[i + 1]>>),
                                 TRUE, quoteChar)
                  ELSE ParseLoop(input, i + 1, parts, Append(current, char), TRUE, quoteChar)

(* A parser that splits at whitespace and knows no quotes *)
ParseCommandFields(input) == Fields(input)

ParseCommandWithQuotes(input) == ParseLoop(TrimSpace(input), 1, <<>>, <<>>, FALSE, "")

(* auth.AuthManager.  The password file holds the salt and the PBKDF2 key  *)
(* of the password; the key is a symbol of its two arguments, so two       *)
(* passwords have the same key exactly when they are equal.                *)
NewAuthManager(passwordFile, enabled) == [passwordFile |-> passwordFile, enabled |-> enabled]
IsEnabled(am) == am.enabled
HasPassword(am) == am.enabled /\ am.passwordFile # NoFile
Key(password, salt) == <<"pbkdf2", password, salt>>
SetPassword(password, salt) == [salt |-> salt, hash |-> Key(password, salt)]

(* VerifyPassword: [valid, err, msg] *)
VerifyPassword(am, password) ==
    IF ~am.enabled THEN [valid |-> TRUE, err |-> FALSE, msg |-> <<>>]
    ELSE IF ~HasPassword(am) THEN [valid |-> FALSE, err |-> TRUE, msg |-> Reply.ERR_NO_PASSWORD]
    ELSE [valid |-> Key(password, am.passwordFile.salt) = am.passwordFile.hash,
          err |-> FALSE, msg |-> <<>>]

(* Cache.Keys(pattern): the unexpired keys when pattern is "*", in the     *)
(* order the range over the map takes; result is one such order            *)
KeysResult(it, pattern, t) ==
    IF pattern = <<"*">>
    THEN {k \in Keys : Exists(it, k) /\ ~(it[k].Expiration > 0 /\ it[k].Expiration < t)}
    ELSE {}

Enumerations(S) ==
    {q \in [1..Cardinality(S) -> S] : \A i, j \in 1..Cardinality(S) : q[i] = q[j] => i = j}

CacheKeys(pattern, result) ==
    /\ Alive
    /\ result \in Enumerations(KeysResult(items, pattern, now))
    /\ last' = [op |-> "Keys", ret |-> result]
    /\ UNCHANGED <<items, heap, now, hit, pmVars, gone>>

(* json.Marshal of a string (the quote, the backslash and the control      *)
(* characters of the model's inputs) and of a map[string]string            *)
JsonString(s) ==
    <<"\"">> \o Join([i \in 1..Len(s) |->
                        CASE s[i] = "\"" -> <<"\\", "\"">>
                          [] s[i] = "\\" -> <<"\\", "\\">>
                          [] s[i] = "\n" -> <<"\\", "n">>
                          [] s[i] = "\r" -> <<"\\", "r">>
                          [] s[i] = "\t" -> <<"\\", "t">>
                          [] OTHER -> <<s[i]>>], <<>>) \o <<"\"">>

JsonObject(a) ==
    <<"{">> \o Join([i \in 1..Len(Pairs(a)) |->
                       JsonString(Pairs(a)[i][1]) \o <<":">> \o JsonString(Pairs(a)[i][2])],
                    <<",">>) \o <<"}">>

(* The response of GET for a value of each Go type *)
FormatGet(v) ==
    CASE v.t = "string" -> v.a[1] \o <<"\n">>
      [] v.t = "array"  -> <<"[">> \o Join(v.a, <<" ">>) \o <<"]", "\n">>
      [] v.t = "object" -> JsonObject(v.a) \o <<"\n">>

(* The reply starts with ERROR *)
IsError(text) == Len(text) >= 5 /\ SubSeq(text, 1, 5) = <<"E", "R", "R", "O", "R">>

(* A handler that closes the connection after an ERROR reply: the next     *)
(* line arrives on a new connection, whose handler has not authenticated   *)
RespondClosing(c, text, auth) ==
    /\ response' = text
    /\ authenticated' = [authenticated EXCEPT ![c] = IF IsError(text) THEN FALSE ELSE auth]
    /\ UNCHANGED <<callVars, strategy, authManager, pool, compact, mutex>>

(* processCommandDirect returns the response, which the handler writes;    *)
(* *authenticated is the handler's local                                   *)
Respond(c, text, auth) ==
    /\ response' = text
    /\ authenticated' = [authenticated EXCEPT ![c] = auth]
    /\ UNCHANGED <<callVars, strategy, authManager, pool, compact, mutex>>

(* The handler of connection c reads the line command *)
Scan(c, command) == request' = [conn |-> c, line |-> command]

(* A response that involves no call of the keyspace: the observer last    *)
(* records that this step called none                                      *)
NoCacheCall ==
    /\ last' = [op |-> "none", ret |-> FALSE]
    /\ UNCHANGED <<items, heap, now, hit, pmVars, gone>>

(* A handler whose failed AUTH logs the connection out *)
HandleAuthResetting(parts, auth) ==
    LET password == parts[2]
        v == VerifyPassword(authManager, password)
    IN  IF Len(parts) # 2 THEN [text |-> Reply.ERR_AUTH_USAGE, authenticated |-> auth]
        ELSE IF authManager # NoAuthManager /\ IsEnabled(authManager)
        THEN IF v.err
             THEN [text |-> Reply.ERR_AUTH_ERROR \o v.msg \o <<"\n">>, authenticated |-> auth]
             ELSE IF v.valid THEN [text |-> Reply.OK_AUTHENTICATED, authenticated |-> TRUE]
             ELSE [text |-> Reply.ERR_INVALID_PASSWORD, authenticated |-> FALSE]
        ELSE [text |-> Reply.OK_NO_AUTH, authenticated |-> TRUE]

(* Single.handleAuth: [text, authenticated] *)
SingleHandleAuth(parts, auth) ==
    LET password == parts[2]
        v == VerifyPassword(authManager, password)
    IN  IF Len(parts) # 2 THEN [text |-> Reply.ERR_AUTH_USAGE, authenticated |-> auth]
        ELSE IF authManager # NoAuthManager /\ IsEnabled(authManager)
        THEN IF v.err
             THEN [text |-> Reply.ERR_AUTH_ERROR \o v.msg \o <<"\n">>, authenticated |-> auth]
             ELSE IF v.valid THEN [text |-> Reply.OK_AUTHENTICATED, authenticated |-> TRUE]
             ELSE [text |-> Reply.ERR_INVALID_PASSWORD, authenticated |-> auth]
        ELSE [text |-> Reply.OK_NO_AUTH, authenticated |-> TRUE]

(* Single.parseTTLFromParts: [err, ttl, parts, msg] *)
SingleParseTTLFromParts(parts) ==
    LET cmd == ToUpper(parts[1])
        t == ParseTTL(parts[4])
    IN  IF cmd \in {<<"D", "E", "L">>, <<"G", "E", "T">>, <<"K", "E", "Y", "S">>, <<"F", "L", "U", "S", "H", "A", "L", "L">>}
        THEN [err |-> FALSE, ttl |-> 0, parts |-> parts, msg |-> <<>>]
        ELSE IF Len(parts) >= 4 /\ parts[3] = <<"-", "t">>
        THEN IF t.err
             THEN [err |-> TRUE, ttl |-> 0, parts |-> <<>>, msg |-> Reply.ERR_TTL_VALUE \o t.msg]
             ELSE [err |-> FALSE, ttl |-> t.ttl, msg |-> <<>>,
                   parts |-> <<parts[1], parts[2]>> \o SubSeq(parts, 5, Len(parts))]
        ELSE [err |-> FALSE, ttl |-> 0, parts |-> parts, msg |-> <<>>]

(* Single.processCommandDirect for the line command of connection c *)
SingleProcessCommandDirect(c, command) ==
    \E parts \in {ParseCommandWithQuotes(command)}, auth \in {authenticated[c]} :
    IF Len(parts) < 1 THEN NoCacheCall /\ Respond(c, Reply.ERR_INVALID_FORMAT, auth)
    ELSE
    \E cmd \in {ToUpper(parts[1])} :
    IF cmd = <<"A", "U", "T", "H">>
    THEN \E a \in {SingleHandleAuth(parts, auth)} :
            NoCacheCall /\ Respond(c, a.text, a.authenticated)
    ELSE IF authManager # NoAuthManager /\ IsEnabled(authManager) /\ ~auth
    THEN NoCacheCall /\ Respond(c, Reply.ERR_AUTH_REQUIRED, auth)
    ELSE
    \E t \in {SingleParseTTLFromParts(parts)} :
    IF t.err THEN NoCacheCall /\ Respond(c, <<"E", "R", "R", "O", "R", " ">> \o t.msg \o <<"\n">>, auth)
    ELSE
    \E filteredParts \in {t.parts}, ttl \in {t.ttl} :
    LET key == filteredParts[2]
        rest == SubSeq(filteredParts, 3, Len(filteredParts))
    IN  CASE cmd = <<"S", "E", "T">> ->
               IF Len(filteredParts) < 3 THEN NoCacheCall /\ Respond(c, Reply.ERR_SET_USAGE, auth)
               ELSE Set(key, StrVal(Join(rest, <<" ">>)), ttl) /\ Respond(c, Reply.REPLY_OK, auth)
          [] cmd = <<"S", "E", "T", "S">> ->
               IF Len(filteredParts) < 3 THEN NoCacheCall /\ Respond(c, Reply.ERR_SETS_USAGE, auth)
               ELSE Set(key, ArrVal(rest), ttl) /\ Respond(c, Reply.REPLY_OK, auth)
          [] cmd = <<"S", "E", "T", "X">> ->
               IF Len(filteredParts) < 4 THEN NoCacheCall /\ Respond(c, Reply.ERR_SETX_USAGE, auth)
               ELSE IF (Len(filteredParts) - 2) % 2 # 0
               THEN NoCacheCall /\ Respond(c, Reply.ERR_SETX_PAIRS, auth)
               ELSE Set(key, ObjVal(MapOf(Pairs(rest))), ttl) /\ Respond(c, Reply.REPLY_OK, auth)
          [] cmd = <<"G", "E", "T">> ->
               IF Len(filteredParts) < 2 THEN NoCacheCall /\ Respond(c, Reply.ERR_GET_USAGE, auth)
               ELSE /\ Get(key)
                    /\ Respond(c, IF ~last'.ret[2] THEN Reply.REPLY_NULL
                                  ELSE FormatGet(last'.ret[1]), auth)
          [] cmd = <<"D", "E", "L">> ->
               IF Len(filteredParts) < 2 THEN NoCacheCall /\ Respond(c, Reply.ERR_DEL_USAGE, auth)
               ELSE /\ Delete(key)
                    /\ Respond(c, IF last'.ret THEN Reply.REPLY_OK ELSE Reply.REPLY_NOT_FOUND, auth)
          [] cmd = <<"K", "E", "Y", "S">> ->
               LET pattern == IF Len(filteredParts) > 1 THEN filteredParts[2] ELSE <<"*">>
               IN  \E keys \in Enumerations(KeysResult(items, pattern, now)) :
                      /\ CacheKeys(pattern, keys)
                      /\ Respond(c, IF Len(keys) = 0 THEN Reply.REPLY_EMPTY
                                    ELSE Join(keys, <<" ">>) \o <<"\n">>, auth)
          [] cmd = <<"F", "L", "U", "S", "H", "A", "L", "L">> -> FlushAll /\ Respond(c, Reply.REPLY_OK, auth)
          [] OTHER -> NoCacheCall /\ Respond(c, Reply.ERR_UNKNOWN, auth)

(* A parser that takes -t and its value for ordinary arguments *)
ParseTTLFromPartsPlain(parts) == [err |-> FALSE, ttl |-> 0, parts |-> parts, msg |-> <<>>]

(* Pooled.handleAuth: [text, authenticated] *)
PooledHandleAuth(parts, auth) ==
    LET password == parts[2]
        v == VerifyPassword(authManager, password)
    IN  IF Len(parts) # 2 THEN [text |-> Reply.ERR_AUTH_USAGE, authenticated |-> auth]
        ELSE IF authManager # NoAuthManager /\ IsEnabled(authManager)
        THEN IF v.err
             THEN [text |-> Reply.ERR_AUTH_ERROR \o v.msg \o <<"\n">>, authenticated |-> auth]
             ELSE IF v.valid THEN [text |-> Reply.OK_AUTHENTICATED, authenticated |-> TRUE]
             ELSE [text |-> Reply.ERR_INVALID_PASSWORD, authenticated |-> auth]
        ELSE [text |-> Reply.OK_NO_AUTH, authenticated |-> TRUE]

(* Pooled.parseTTLFromParts: [err, ttl, parts, msg] *)
PooledParseTTLFromParts(parts) ==
    LET cmd == ToUpper(parts[1])
        t == ParseTTL(parts[4])
    IN  IF cmd \in {<<"D", "E", "L">>, <<"G", "E", "T">>, <<"K", "E", "Y", "S">>, <<"F", "L", "U", "S", "H", "A", "L", "L">>}
        THEN [err |-> FALSE, ttl |-> 0, parts |-> parts, msg |-> <<>>]
        ELSE IF Len(parts) >= 4 /\ parts[3] = <<"-", "t">>
        THEN IF t.err
             THEN [err |-> TRUE, ttl |-> 0, parts |-> <<>>, msg |-> Reply.ERR_TTL_VALUE \o t.msg]
             ELSE [err |-> FALSE, ttl |-> t.ttl, msg |-> <<>>,
                   parts |-> <<parts[1], parts[2]>> \o SubSeq(parts, 5, Len(parts))]
        ELSE [err |-> FALSE, ttl |-> 0, parts |-> parts, msg |-> <<>>]

(* Pooled.processCommandDirect for the line command of connection c *)
PooledProcessCommandDirect(c, command) ==
    \E parts \in {ParseCommandWithQuotes(command)}, auth \in {authenticated[c]} :
    IF Len(parts) < 1 THEN NoCacheCall /\ Respond(c, Reply.ERR_INVALID_FORMAT, auth)
    ELSE
    \E cmd \in {ToUpper(parts[1])} :
    IF cmd = <<"A", "U", "T", "H">>
    THEN \E a \in {PooledHandleAuth(parts, auth)} :
            NoCacheCall /\ Respond(c, a.text, a.authenticated)
    ELSE IF authManager # NoAuthManager /\ IsEnabled(authManager) /\ ~auth
    THEN NoCacheCall /\ Respond(c, Reply.ERR_AUTH_REQUIRED, auth)
    ELSE
    \E t \in {PooledParseTTLFromParts(parts)} :
    IF t.err THEN NoCacheCall /\ Respond(c, <<"E", "R", "R", "O", "R", " ">> \o t.msg \o <<"\n">>, auth)
    ELSE
    \E filteredParts \in {t.parts}, ttl \in {t.ttl} :
    LET key == filteredParts[2]
        rest == SubSeq(filteredParts, 3, Len(filteredParts))
    IN  CASE cmd = <<"S", "E", "T">> ->
               IF Len(filteredParts) < 3 THEN NoCacheCall /\ Respond(c, Reply.ERR_SET_USAGE, auth)
               ELSE Set(key, StrVal(Join(rest, <<" ">>)), ttl) /\ Respond(c, Reply.REPLY_OK, auth)
          [] cmd = <<"S", "E", "T", "S">> ->
               IF Len(filteredParts) < 3 THEN NoCacheCall /\ Respond(c, Reply.ERR_SETS_USAGE, auth)
               ELSE Set(key, ArrVal(rest), ttl) /\ Respond(c, Reply.REPLY_OK, auth)
          [] cmd = <<"S", "E", "T", "X">> ->
               IF Len(filteredParts) < 4 THEN NoCacheCall /\ Respond(c, Reply.ERR_SETX_USAGE, auth)
               ELSE IF (Len(filteredParts) - 2) % 2 # 0
               THEN NoCacheCall /\ Respond(c, Reply.ERR_SETX_PAIRS, auth)
               ELSE Set(key, ObjVal(MapOf(Pairs(rest))), ttl) /\ Respond(c, Reply.REPLY_OK, auth)
          [] cmd = <<"G", "E", "T">> ->
               IF Len(filteredParts) < 2 THEN NoCacheCall /\ Respond(c, Reply.ERR_GET_USAGE, auth)
               ELSE /\ Get(key)
                    /\ Respond(c, IF ~last'.ret[2] THEN Reply.REPLY_NULL
                                  ELSE FormatGet(last'.ret[1]), auth)
          [] cmd = <<"D", "E", "L">> ->
               IF Len(filteredParts) < 2 THEN NoCacheCall /\ Respond(c, Reply.ERR_DEL_USAGE, auth)
               ELSE /\ Delete(key)
                    /\ Respond(c, IF last'.ret THEN Reply.REPLY_OK ELSE Reply.REPLY_NOT_FOUND, auth)
          [] cmd = <<"K", "E", "Y", "S">> ->
               LET pattern == IF Len(filteredParts) > 1 THEN filteredParts[2] ELSE <<"*">>
               IN  \E keys \in Enumerations(KeysResult(items, pattern, now)) :
                      /\ CacheKeys(pattern, keys)
                      /\ Respond(c, IF Len(keys) = 0 THEN Reply.REPLY_EMPTY
                                    ELSE Join(keys, <<" ">>) \o <<"\n">>, auth)
          [] cmd = <<"F", "L", "U", "S", "H", "A", "L", "L">> -> FlushAll /\ Respond(c, Reply.REPLY_OK, auth)
          [] OTHER -> NoCacheCall /\ Respond(c, Reply.ERR_UNKNOWN, auth)

(* The lines the clients send *)
CommandList ==
    <<<<"A", "U", "T", "H", " ", "p">>,  \*  1: AUTH p
      <<"A", "U", "T", "H", " ", "q">>,  \*  2: AUTH q
      <<"A", "U", "T", "H">>,  \*  3: AUTH
      <<"S", "E", "T", " ", "k", " ", "\"", "a", " ", "b", "\"">>,  \*  4: SET k "a b"
      <<"S", "E", "T", "S", " ", "k", " ", "-", "t", " ", "1", " ", "a", " ", "b">>,  \*  5: SETS k -t 1 a b
      <<"S", "E", "T", " ", "k", " ", "-", "t", " ", "x", " ", "a">>,  \*  6: SET k -t x a
      <<"S", "E", "T", "X", " ", "j", " ", "a", " ", "b">>,  \*  7: SETX j a b
      <<"g", "e", "t", " ", "k">>,  \*  8: get k
      <<"G", "E", "T", " ", "j">>,  \*  9: GET j
      <<"D", "E", "L", " ", "k">>,  \* 10: DEL k
      <<"K", "E", "Y", "S">>,  \* 11: KEYS
      <<"F", "L", "U", "S", "H", "A", "L", "L">>,  \* 12: FLUSHALL
      <<"S", "E", "T", "N", "X", " ", "k", " ", "a">>,  \* 13: SETNX k a
      <<"S", "E", "T", "N", "X", " ", "k", " ", "b">>,  \* 14: SETNX k b
      <<"S", "E", "T", "S", "N", "X", " ", "j", " ", "a", " ", "b">>,  \* 15: SETSNX j a b
      <<"S", "E", "T", "X", "N", "X", " ", "j", " ", "a", " ", "b">>,  \* 16: SETXNX j a b
      <<" ", " ">>,  \* 17: __
      <<"S", "E", "T", "X", " ", "j", " ", "a", " ", "b", " ", "c">>  \* 18: SETX j a b c
    >>
Commands == {CommandList[i] : i \in 1..Len(CommandList)}

(* The lines on each connection: the first sends any of them, the second   *)
(* the ones that log in, read and write                                    *)
CommandsOf(c) == IF c = 1 THEN Commands ELSE {CommandList[i] : i \in {1, 2, 4, 8, 13}}

(* The authentication main sets up: no password configured, a password    *)
(* configured, and a password configured whose file could not be written   *)
Password == <<"p">>
AuthManagers ==
    {NewAuthManager(NoFile, FALSE),
     NewAuthManager(SetPassword(Password, "salt"), TRUE),
     NewAuthManager(NoFile, TRUE)}

(* The server accepts a new connection in place of c: its handler starts   *)
(* with authenticated := false                                             *)
HandleTextConnection(c) ==
    /\ authenticated[c]
    /\ authenticated' = [authenticated EXCEPT ![c] = FALSE]
    /\ UNCHANGED <<items, heap, now, last, hit, pmVars, gone, callVars,
                   strategy, authManager, request, response, pool, compact, mutex>>

InitSrv ==
    /\ InitKeyspace
    /\ InitCalls
    /\ hit = [k \in Keys |-> -2]
    /\ InitNoPersistence
    /\ strategy \in {"single-goroutine", "pooled-goroutine"}
    /\ authManager \in AuthManagers
    /\ pool = NoPool

NextSrv ==
    \/ \E c \in Conns : \E command \in CommandsOf(c) :
          /\ strategy = "single-goroutine"
          /\ Scan(c, command) /\ SingleProcessCommandDirect(c, command)
    \/ \E c \in Conns : \E command \in CommandsOf(c) :
          /\ strategy = "pooled-goroutine"
          /\ Scan(c, command) /\ PooledProcessCommandDirect(c, command)
    \/ \E c \in Conns : HandleTextConnection(c)

SpecSrv == InitSrv /\ [][NextSrv]_vars

----------------------------------------------------------------------------
(* The pooled server's admission: the accept loop of                       *)
(* PooledGoroutineServer.Start, GoroutinePool.SubmitTask, the workers and  *)
(* the scaling of the pool.  pool is the record                            *)
(*   taskChan     the buffered channel: connection slots, 0 for a nil task *)
(*   workerCount, minWorkers, maxWorkers                                   *)
(*   idle         worker goroutines waiting in their select                *)
(*   due          scaleInterval has passed since lastScaleTime             *)
(*   fast         avgTaskTime < 1 ms                                       *)
(*   poolRejected gp.rejectedTasks                                         *)
(*   conns        per slot: "none", "accepted" (its task is being          *)
(*                submitted), "queued", "serving", "closed" (by its        *)
(*                worker), "rejected" (closed by the accept loop)          *)
(*   takers       per slot: the workers that received the connection       *)
(*   activeConnections, rejectedTasks    the server's counters             *)
(*   accept       the accept loop: "accept", "submit" (blocked in the      *)
(*                select of SubmitTask), "scale" (before checkAndScale)    *)
(*   task         the slot of the connection the accept loop is handling   *)
MaxConn == 4
MaxRejected == 2
Slots == 1..MaxConn
PoolTargets == {1, 8}

min(a, b) == IF a < b THEN a ELSE b
max(a, b) == IF a > b THEN a ELSE b

NewGoroutinePool(workerCount) ==
    [taskChan |-> <<>>, workerCount |-> workerCount,
     minWorkers |-> max(1, workerCount \div 4), maxWorkers |-> workerCount * 2,
     idle |-> 0, due |-> FALSE, fast |-> TRUE, poolRejected |-> 0]

(* NewPooledGoroutineServer, and pool.Start() at the head of Start: the    *)
(* workers are started                                                     *)
NewPooledGoroutineServer(poolSize) ==
    LET gp == NewGoroutinePool(poolSize)
    IN  [f \in (DOMAIN gp) \cup {"conns", "takers", "activeConnections", "rejectedTasks", "accept", "task"} |->
            CASE f = "conns" -> [c \in Slots |-> "none"]
              [] f = "takers" -> [c \in Slots |-> 0]
              [] f = "activeConnections" -> 0
              [] f = "rejectedTasks" -> 0
              [] f = "accept" -> "accept"
              [] f = "task" -> 0
              [] f = "idle" -> gp.workerCount
              [] OTHER -> gp[f]]

(* The worker goroutines that have not returned, and the nil tasks queued *)
Serving(p) == {c \in Slots : p.conns[c] = "serving"}
Running(p) == p.idle + Cardinality(Serving(p))
Nils(p) == Cardinality({i \in 1..Len(p.taskChan) : p.taskChan[i] = 0})

(* A scaleUp that does not look at maxWorkers *)
scaleUpUncapped(p) ==
    LET newWorkers == p.workerCount \div 4
    IN  IF newWorkers <= 0 THEN p
        ELSE [p EXCEPT !.idle = @ + newWorkers, !.workerCount = @ + newWorkers]

scaleUp(p) ==
    LET newWorkers == min(p.workerCount \div 4, p.maxWorkers - p.workerCount)
    IN  IF newWorkers <= 0 THEN p
        ELSE [p EXCEPT !.idle = @ + newWorkers, !.workerCount = @ + newWorkers]

(* A scaleDown that stops as many workers as the pool has *)
scaleDownAll(p) ==
    [p EXCEPT !.taskChan = @ \o [i \in 1..min(p.workerCount, p.maxWorkers - Len(@)) |-> 0],
              !.workerCount = 0]

(* the nil tasks go into the channel while it has room *)
scaleDown(p) ==
    LET removeWorkers == min(p.workerCount \div 8, p.workerCount - p.minWorkers)
        sent == min(removeWorkers, p.maxWorkers - Len(p.taskChan))
    IN  IF removeWorkers <= 0 THEN p
        ELSE [p EXCEPT !.taskChan = @ \o [i \in 1..sent |-> 0],
                       !.workerCount = @ - removeWorkers]

(* A check that scales up whatever maxWorkers is *)
checkAndScaleNoMax(p, activeWorkers) ==
    LET queueLength == Len(p.taskChan)
        p1 == IF \/ queueLength > p.workerCount \div 2
                 \/ activeWorkers >= (p.workerCount * 9) \div 10
              THEN scaleUpUncapped(p) ELSE p
        p2 == IF queueLength = 0 /\ p.fast /\ p1.workerCount > p1.minWorkers
              THEN scaleDown(p1) ELSE p1
    IN  IF ~p.due THEN p ELSE [p2 EXCEPT !.due = FALSE]

checkAndScaleWith(p, activeWorkers) ==
    LET queueLength == Len(p.taskChan)
        p1 == IF /\ \/ queueLength > p.workerCount \div 2
                    \/ activeWorkers >= (p.workerCount * 9) \div 10
                 /\ p.workerCount < p.maxWorkers
              THEN scaleUp(p) ELSE p
        p2 == IF queueLength = 0 /\ p.fast /\ p1.workerCount > p1.minWorkers
              THEN scaleDown(p1) ELSE p1
    IN  IF ~p.due THEN p ELSE [p2 EXCEPT !.due = FALSE]

(* gp.activeWorkers is the number of worker goroutines that have not       *)
(* returned                                                                *)
checkAndScale(p) == checkAndScaleWith(p, Running(p))

(* Only the pool moves *)
PoolStep(p) ==
    /\ pool' = p
    /\ UNCHANGED <<items, heap, now, last, hit, pmVars, gone, callVars,
                   strategy, authManager, authenticated, request, response, compact, mutex>>

(* SubmitTask's send: the task is in the channel, checkAndScale is next *)
Sent(p, c) ==
    [p EXCEPT !.taskChan = Append(@, c), !.conns[c] = "queued", !.accept = "scale"]

(* Start's loop accepts a connection, counts it and submits its task: the  *)
(* send goes through if the channel has room, else SubmitTask blocks until *)
(* a worker receives or the 100 ms are over                                *)
Accept(c) ==
    /\ pool.accept = "accept"
    /\ pool.conns[c] \in {"none", "closed", "rejected"}
    /\ \A d \in Slots : d < c => pool.conns[d] \notin {"none", "closed", "rejected"}
    /\ LET p == [pool EXCEPT !.activeConnections = @ + 1, !.task = c,
                             !.conns[c] = "accepted", !.takers[c] = 0]
       IN  IF Len(pool.taskChan) < pool.maxWorkers
           THEN PoolStep(Sent(p, c))
           ELSE PoolStep([p EXCEPT !.accept = "submit"])

(* A timeout taken although the task was sent *)
SubmitTaskLateTimeout ==
    /\ pool.accept \in {"submit", "scale"}
    /\ pool.rejectedTasks < MaxRejected
    /\ PoolStep([pool EXCEPT !.poolRejected = @ + 1, !.rejectedTasks = @ + 1,
                             !.activeConnections = @ - 1,
                             !.conns[pool.task] = "rejected",
                             !.accept = "accept", !.task = 0])

(* The 100 ms are over: SubmitTask returns false, and Start counts the     *)
(* rejection and closes the connection                                     *)
SubmitTaskTimeout ==
    /\ pool.accept = "submit"
    /\ pool.rejectedTasks < MaxRejected
    /\ PoolStep([pool EXCEPT !.poolRejected = @ + 1, !.rejectedTasks = @ + 1,
                             !.activeConnections = @ - 1,
                             !.conns[pool.task] = "rejected",
                             !.accept = "accept", !.task = 0])

(* After the send: checkAndScale, and SubmitTask returns true *)
SubmitTaskScale ==
    /\ pool.accept = "scale"
    /\ PoolStep([checkAndScale(pool) EXCEPT !.accept = "accept", !.task = 0])

(* The channel after a receive: a send that SubmitTask's select is blocked *)
(* in completes with it                                                    *)
Received(p) ==
    LET q == [p EXCEPT !.taskChan = Tail(@)]
    IN  IF p.accept = "submit" THEN Sent(q, p.task) ELSE q

(* A worker that hands the task on to the next worker as well *)
workerSharing ==
    /\ pool.idle > 0
    /\ pool.taskChan # <<>>
    /\ LET task == Head(pool.taskChan)
       IN  IF task = 0
           THEN PoolStep([Received(pool) EXCEPT !.idle = @ - 1])
           ELSE PoolStep([pool EXCEPT !.idle = @ - 1,
                                      !.conns[task] = "serving", !.takers[task] = @ + 1])

(* An idle worker receives from taskChan: a nil task makes it return, a    *)
(* connection it serves                                                    *)
worker ==
    /\ pool.idle > 0
    /\ pool.taskChan # <<>>
    /\ LET task == Head(pool.taskChan)
       IN  IF task = 0
           THEN PoolStep([Received(pool) EXCEPT !.idle = @ - 1])
           ELSE PoolStep([Received(pool) EXCEPT !.idle = @ - 1,
                                                !.conns[task] = "serving", !.takers[task] = @ + 1])

(* The client of c is done: handleConnectionTask closes the connection and *)
(* counts it off, the worker records the task time and waits again         *)
handleConnectionTask(c, fast) ==
    /\ pool.conns[c] = "serving"
    /\ PoolStep([pool EXCEPT !.conns[c] = "closed", !.activeConnections = @ - 1,
                             !.idle = @ + 1, !.fast = fast])

(* scaleInterval passes *)
Elapse ==
    /\ ~pool.due
    /\ PoolStep([pool EXCEPT !.due = TRUE])

InitPool ==
    /\ InitKeyspace
    /\ InitCalls
    /\ hit = [k \in Keys |-> -2]
    /\ InitNoPersistence
    /\ strategy = "pooled-goroutine"
    /\ authManager = NewAuthManager(NoFile, FALSE)
    /\ pool \in {NewPooledGoroutineServer(target) : target \in PoolTargets}

NextPool ==
    \/ \E c \in Slots : Accept(c)
    \/ SubmitTaskTimeout
    \/ SubmitTaskScale
    \/ worker
    \/ \E c \in Slots, fast \in BOOLEAN : handleConnectionTask(c, fast)
    \/ Elapse

SpecPool == InitPool /\ [][NextPool]_vars

----------------------------------------------------------------------------
(* The pool with its connections counted, not told apart: a task in        *)
(* taskChan is 0 (nil) or 1 (a connection), serving is the number of       *)
(* workers inside handleConnectionTask, and the accept loop holds at most  *)
(* one connection whose task it is submitting.                             *)
MaxOpen == 9
CountedTargets == {1, 4, 8}

CountedPool(poolSize) ==
    LET gp == NewGoroutinePool(poolSize)
    IN  [f \in (DOMAIN gp) \cup {"serving", "activeConnections", "rejectedTasks", "accept"} |->
            CASE f = "serving" -> 0
              [] f = "activeConnections" -> 0
              [] f = "rejectedTasks" -> 0
              [] f = "accept" -> "accept"
              [] f = "idle" -> gp.workerCount
              [] OTHER -> gp[f]]

CountedSent(p) == [p EXCEPT !.taskChan = Append(@, 1), !.accept = "scale"]

(* Start's loop accepts a connection, counts it and submits its task *)
CountedAccept ==
    /\ pool.accept = "accept"
    /\ pool.activeConnections < MaxOpen
    /\ LET p == [pool EXCEPT !.activeConnections = @ + 1]
       IN  IF Len(pool.taskChan) < pool.maxWorkers
           THEN PoolStep(CountedSent(p))
           ELSE PoolStep([p EXCEPT !.accept = "submit"])

(* The 100 ms are over: the task is rejected and the connection closed *)
CountedTimeout ==
    /\ pool.accept = "submit"
    /\ pool.rejectedTasks < MaxRejected
    /\ PoolStep([pool EXCEPT !.poolRejected = @ + 1, !.rejectedTasks = @ + 1,
                             !.activeConnections = @ - 1, !.accept = "accept"])

(* After the send: checkAndScale, and SubmitTask returns true *)
CountedScale ==
    /\ pool.accept = "scale"
    /\ PoolStep([checkAndScaleWith(pool, pool.idle + pool.serving) EXCEPT !.accept = "accept"])

CountedReceived(p) ==
    LET q == [p EXCEPT !.taskChan = Tail(@)]
    IN  IF p.accept = "submit" THEN CountedSent(q) ELSE q

(* An idle worker receives: a nil task makes it return, a connection it    *)
(* serves                                                                  *)
CountedWorker ==
    /\ pool.idle > 0
    /\ pool.taskChan # <<>>
    /\ IF Head(pool.taskChan) = 0
       THEN PoolStep([CountedReceived(pool) EXCEPT !.idle = @ - 1])
       ELSE PoolStep([CountedReceived(pool) EXCEPT !.idle = @ - 1, !.serving = @ + 1])

(* A client is done: its worker closes the connection, records the task    *)
(* time and waits again                                                    *)
CountedHandle(fast) ==
    /\ pool.serving > 0
    /\ PoolStep([pool EXCEPT !.serving = @ - 1, !.activeConnections = @ - 1,
                             !.idle = @ + 1, !.fast = fast])

InitCounted ==
    /\ InitKeyspace
    /\ InitCalls
    /\ hit = [k \in Keys |-> -2]
    /\ InitNoPersistence
    /\ strategy = "pooled-goroutine"
    /\ authManager = NewAuthManager(NoFile, FALSE)
    /\ pool \in {CountedPool(target) : target \in CountedTargets}

NextCounted ==
    \/ CountedAccept
    \/ CountedTimeout
    \/ CountedScale
    \/ CountedWorker
    \/ \E fast \in BOOLEAN : CountedHandle(fast)
    \/ Elapse

SpecCounted == InitCounted /\ [][NextCounted]_vars

----------------------------------------------------------------------------
(* Rotation and compaction of the command log.  compact is the record      *)
(*   rotated      the files pm.aclPath.<time>, oldest first (Glob's order) *)
(*   aclFileSize  pm.aclFileSize                                           *)
(*   pc           compactAclFiles: "idle", "merged" (files read and        *)
(*                folded), "renamed" (merged file in place), "statted"     *)
(*   matches      the number of rotated files that Glob found              *)
(*   commands     compactAclFiles' map key -> latest command               *)
(*   info         what os.Stat returned                                    *)
(*   appended     observer: the lines writeCommandToAcl appended since     *)
(*                compactAclFiles read the files                           *)
(*   written      observer: the number of lines ever appended              *)
MaxAclFileSize == 11
MaxStamp == 1
MaxCLog == 3

IsDelete(cmdType) == cmdType \in {CMD_DEL, CMD_DELS, CMD_DELX}

(* compactAclFiles: one line parsed into a Command, or skipped; a number   *)
(* that does not parse is 0                                                *)
ParseCommand(rawLine) ==
    LET line  == TrimSpace(rawLine)
        parts == Split(line, "|")
    IN  IF line = <<>> \/ Len(parts) # 5 THEN [ok |-> FALSE]
        ELSE [ok |-> TRUE,
              cmd |-> [Timestamp |-> ParseInt(parts[1]).n, Type |-> parts[2], Key |-> parts[3],
                       Value |-> ParseValue(parts[4]), TTL |-> ParseInt(parts[5]).n]]

(* A merge that keeps the record with the larger timestamp, whatever its   *)
(* type                                                                    *)
MergeLatest(commands, cmd) ==
    IF cmd.Key \in DOMAIN commands
    THEN IF cmd.Timestamp > commands[cmd.Key].Timestamp
         THEN [commands EXCEPT ![cmd.Key] = cmd] ELSE commands
    ELSE (cmd.Key :> cmd) @@ commands

(* compactAclFiles, the merge strategy, for one command read *)
Merge(commands, cmd) ==
    IF cmd.Key \in DOMAIN commands
    THEN IF IsDelete(cmd.Type) THEN [commands EXCEPT ![cmd.Key] = cmd]
         ELSE IF IsDelete(commands[cmd.Key].Type) THEN commands
         ELSE IF cmd.Timestamp > commands[cmd.Key].Timestamp
         THEN [commands EXCEPT ![cmd.Key] = cmd]
         ELSE commands
    ELSE (cmd.Key :> cmd) @@ commands

(* compactAclFiles: the commands that the lines of one file parse to *)
RECURSIVE ParseLines(_)
ParseLines(lines) ==
    IF lines = <<>> THEN <<>>
    ELSE LET p == ParseCommand(Head(lines))
         IN  (IF p.ok THEN <<p.cmd>> ELSE <<>>) \o ParseLines(Tail(lines))

RECURSIVE MergeLines(_, _)
MergeLines(commands, cmds) ==
    IF cmds = <<>> THEN commands
    ELSE MergeLines(Merge(commands, Head(cmds)), Tail(cmds))

(* compactAclFiles: every file of allFiles, in that order, line by line;   *)
(* parsed holds the commands of each file                                  *)
RECURSIVE MergeParsed(_, _)
MergeParsed(commands, parsed) ==
    IF parsed = <<>> THEN commands
    ELSE MergeParsed(MergeLines(commands, Head(parsed)), Tail(parsed))
ParseFiles(allFiles) == [i \in 1..Len(allFiles) |-> ParseLines(Split(allFiles[i], "\n"))]
MergeFiles(commands, allFiles) == MergeParsed(commands, ParseFiles(allFiles))

(* A merged file whose records are stamped anew, one later than read *)
RECURSIVE WriteMergedRestamped(_, _, _)
WriteMergedRestamped(commands, keys, ords) ==
    IF keys = <<>> THEN <<>>
    ELSE FormatLine([commands[Head(keys)] EXCEPT !.Timestamp = @ + 1], ords[Head(keys)])
         \o WriteMergedRestamped(commands, Tail(keys), ords)

(* compactAclFiles: the merged file, the commands written in the order     *)
(* keys, which is the order the map yields them, and the pairs of an       *)
(* object in the order ords gives                                          *)
RECURSIVE WriteMerged(_, _, _)
WriteMerged(commands, keys, ords) ==
    IF keys = <<>> THEN <<>>
    ELSE FormatLine(commands[Head(keys)], ords[Head(keys)])
         \o WriteMerged(commands, Tail(keys), ords)

(* The merged files that the map orders allow *)
MergedFiles(commands) ==
    LET allOrds == UNION {Orders(NumPairs(commands[k].Value)) : k \in DOMAIN commands}
    IN  {WriteMerged(commands, keys, ords) :
            keys \in Enumerations(DOMAIN commands),
            ords \in {o \in [DOMAIN commands -> allOrds] :
                         \A k \in DOMAIN commands : o[k] \in Orders(NumPairs(commands[k].Value))}}

(* What the clients store in this model, and the bound on what they log *)
CSets == {<<<<"k">>, StrVal(<<"a">>)>>, <<<<"k">>, StrVal(<<"b">>)>>,
          <<<<"j">>, ArrVal(<<<<"a">>, <<"b">>>>)>>}
CanLog == Len(commandChan) + compact.written < MaxCLog

(* processCommands receives a command, and writeCommandToAcl, holding      *)
(* pm.mutex, rotates the file if it has reached maxAclFileSize (the rename *)
(* fails if there is no file), appends the line and adds its length        *)
WriteCommandToAcl ==
    /\ writerAlive
    /\ commandChan # <<>>
    /\ LET cmd    == Head(commandChan)
           rotate == compact.aclFileSize >= MaxAclFileSize /\ aclFile # <<>>
       IN  \E ord \in Orders(NumPairs(cmd.Value)) :
              /\ aclFile' = (IF rotate THEN <<>> ELSE aclFile) \o FormatLine(cmd, ord)
              /\ compact' = [compact EXCEPT
                    !.rotated = IF rotate THEN Append(@, aclFile) ELSE @,
                    !.aclFileSize = (IF rotate THEN 0 ELSE @) + Len(FormatLine(cmd, ord)),
                    !.appended = IF compact.pc = "idle" THEN @ ELSE Append(@, FormatLine(cmd, ord)),
                    !.written = @ + 1]
    /\ commandChan' = Tail(commandChan)
    /\ UNCHANGED <<items, heap, now, last, hit, gone, persistence, pmState, writerAlive,
                   atdFile, callVars, srvVars, mutex>>

(* Only the files and the compaction move *)
CompactStep(file, c) ==
    /\ aclFile' = file
    /\ compact' = c
    /\ UNCHANGED <<items, heap, now, last, hit, gone, persistence, commandChan, pmState,
                   writerAlive, atdFile, callVars, srvVars, mutex>>

(* periodicAcl's ticker: flushAcl calls compactAclFiles, which holds no    *)
(* lock; with no rotated file it returns, else it reads the active file    *)
(* and then the rotated ones into commands                                 *)
CompactRead ==
    /\ compact.pc = "idle"
    /\ compact.rotated # <<>>
    /\ CompactStep(aclFile,
          [compact EXCEPT !.pc = "merged", !.matches = Len(compact.rotated),
                          !.commands = MergeFiles(<<>>, <<aclFile>> \o compact.rotated),
                          !.appended = <<>>])

(* compactAclFiles writes the merged file, removes the rotated files it    *)
(* found and renames the merged file to pm.aclPath                         *)
CompactWrite ==
    /\ compact.pc = "merged"
    /\ \E merged \in MergedFiles(compact.commands) :
          CompactStep(merged,
             [compact EXCEPT !.pc = "renamed",
                             !.rotated = SubSeq(@, compact.matches + 1, Len(@))])

(* pm.aclFileSize = 0, and os.Stat of the file *)
CompactStat ==
    /\ compact.pc = "renamed"
    /\ CompactStep(aclFile, [compact EXCEPT !.pc = "statted", !.aclFileSize = 0,
                                            !.info = Len(aclFile)])

(* pm.aclFileSize = info.Size() *)
CompactSize ==
    /\ compact.pc = "statted"
    /\ CompactStep(aclFile, [compact EXCEPT !.pc = "idle", !.aclFileSize = compact.info])

InitC ==
    /\ InitCache
    /\ hit = [k \in Keys |-> -2]
    /\ gone = [k \in Keys |-> "off"]
    /\ persistence = TRUE
    /\ commandChan = <<>>
    /\ pmState = "running"
    /\ writerAlive = TRUE
    /\ aclFile = <<>>
    /\ atdFile = NoFile
    /\ mutex = NoMutex
    /\ compact = [rotated |-> <<>>, aclFileSize |-> 0, pc |-> "idle", matches |-> 0,
                  commands |-> <<>>, info |-> 0, appended |-> <<>>, written |-> 0]

NextC ==
    \/ \E s \in CSets : CanLog /\ Set(s[1], s[2], 0) /\ UNCHANGED connVars
    \/ \E k \in Keys : CanLog /\ Delete(k) /\ UNCHANGED connVars
    \/ Tick(MaxStamp) /\ UNCHANGED connVars
    \/ WriteCommandToAcl
    \/ CompactRead
    \/ CompactWrite
    \/ CompactStat
    \/ CompactSize

SpecC == InitC /\ [][NextC]_vars

----------------------------------------------------------------------------
(* The two locks, step by step.  The tasks are the connections (client     *)
(* commands and the sweep), processCommands ("writer"), periodicAtd        *)
(* ("atd") and periodicAcl ("acl").  Here mu is the record of c.mu, a      *)
(* sync.RWMutex: w the task holding it exclusively ("": none), r the tasks *)
(* holding it shared, q the tasks blocked in Lock(); a pending Lock() lets *)
(* no new reader in.  mutex is pm.mutex, "" when free.  pc[t] is where     *)
(* task t stands, call[t] what it carries.                                 *)
Clients == {"c1", "c2"}
MaxLogL == 1
Tasks == Clients \cup {"writer", "atd", "acl"}
WriteOps == {"Set", "SetNX", "Delete", "FlushAll", "Cleanup"}
Logging == {"Set", "SetNX", "Delete"}
LockValues == {StrVal(<<"a">>)}

(* The commands not yet in the ACL file that may still reach it *)
InHand ==
    Cardinality({c \in Clients : pc[c] # "idle" /\ call[c].op \in Logging})
    + (IF pc["writer"] \in {"wlock", "write"} THEN 1 ELSE 0)

(* A connection's handler calls a method of Cache: Lock() or RLock() *)
ClientCall(c, op, key, value) ==
    /\ pc[c] = "idle"
    /\ op \in Logging => Logged + InHand < MaxLogL
    /\ call' = [call EXCEPT ![c] = [op |-> op, key |-> key, value |-> value]]
    /\ pc' = [pc EXCEPT ![c] = IF op = "Get" THEN "rlock" ELSE "lock"]
    /\ mu' = IF op = "Get" THEN mu ELSE [mu EXCEPT !.q = @ \cup {c}]
    /\ UNCHANGED <<items, heap, now, last, hit, pmVars, gone, muts, srvVars, compact, mutex>>

(* c.mu.Lock() returns: no holder of either kind is left *)
ClientLock(c) ==
    /\ pc[c] = "lock"
    /\ mu.w = "" /\ mu.r = {}
    /\ mu' = [mu EXCEPT !.w = c, !.q = @ \ {c}]
    /\ pc' = [pc EXCEPT ![c] = "body"]
    /\ UNCHANGED <<items, heap, now, last, hit, pmVars, gone, call, muts, srvVars, compact, mutex>>

(* The method's body under c.mu, LogCommand included, and the deferred     *)
(* Unlock()                                                                *)
Body(c) ==
    /\ \/ call[c].op = "Set" /\ Set(call[c].key, call[c].value, 0)
       \/ call[c].op = "SetNX" /\ SetNX(call[c].key, call[c].value, 0)
       \/ call[c].op = "Delete" /\ Delete(call[c].key)
       \/ call[c].op = "FlushAll" /\ FlushAll
       \/ call[c].op = "Cleanup" /\ Cleanup
    /\ mu' = [mu EXCEPT !.w = ""]
    /\ pc' = [pc EXCEPT ![c] = "idle"]
    /\ call' = [call EXCEPT ![c] = NoCall]
    /\ UNCHANGED <<muts, srvVars, compact, mutex>>

(* A body whose LogCommand asks pm.IsEnabled(), which takes pm.mutex *)
ClientBodyLocked(c) ==
    \/ /\ pc[c] \in {"body", "blog"}
       /\ mutex = ""
       /\ Body(c)
    \/ /\ pc[c] = "body"
       /\ mutex # ""
       /\ pc' = [pc EXCEPT ![c] = "blog"]
       /\ UNCHANGED <<items, heap, now, last, hit, pmVars, gone, mu, call, muts, srvVars,
                      compact, mutex>>

ClientBody(c) ==
    /\ pc[c] = "body"
    /\ Body(c)

(* c.mu.RLock() returns: no writer holds c.mu or waits for it *)
ClientRLock(c) ==
    /\ pc[c] = "rlock"
    /\ mu.w = "" /\ mu.q = {}
    /\ mu' = [mu EXCEPT !.r = @ \cup {c}]
    /\ pc' = [pc EXCEPT ![c] = "rbody"]
    /\ UNCHANGED <<items, heap, now, last, hit, pmVars, gone, call, muts, srvVars, compact, mutex>>

(* Get under the shared lock, and the deferred RUnlock() *)
ClientRBody(c) ==
    /\ pc[c] = "rbody"
    /\ Get(call[c].key)
    /\ mu' = [mu EXCEPT !.r = @ \ {c}]
    /\ pc' = [pc EXCEPT ![c] = "idle"]
    /\ call' = [call EXCEPT ![c] = NoCall]
    /\ UNCHANGED <<muts, srvVars, compact, mutex>>

(* The tasks of the persistence manager move; the keyspace stays *)
PmStep(t, to, carried, m, chan, acl, atd) ==
    /\ pc' = [pc EXCEPT ![t] = to]
    /\ call' = [call EXCEPT ![t] = carried]
    /\ mutex' = m
    /\ commandChan' = chan
    /\ aclFile' = acl
    /\ atdFile' = atd
    /\ UNCHANGED <<items, heap, now, last, hit, gone, persistence, pmState, writerAlive,
                   muts, srvVars, compact>>

(* processCommands receives a command and calls writeCommandToAcl *)
WriterReceive ==
    /\ pc["writer"] = "recv"
    /\ commandChan # <<>>
    /\ mu' = mu
    /\ PmStep("writer", "wlock", Head(commandChan), mutex, Tail(commandChan), aclFile, atdFile)

(* writeCommandToAcl: pm.mutex.Lock() returns *)
WriterLock ==
    /\ pc["writer"] = "wlock"
    /\ mutex = ""
    /\ mu' = mu
    /\ PmStep("writer", "write", call["writer"], "writer", commandChan, aclFile, atdFile)

(* writeCommandToAcl appends the line; the deferred Unlock() *)
WriterWrite ==
    /\ pc["writer"] = "write"
    /\ mu' = mu
    /\ \E ord \in Orders(NumPairs(call["writer"].Value)) :
          PmStep("writer", "recv", NoCall, "", commandChan,
                 aclFile \o FormatLine(call["writer"], ord), atdFile)

(* periodicAtd's ticker fires and SaveAtd calls pm.mutex.Lock() *)
AtdCall ==
    /\ pc["atd"] = "idle"
    /\ mu' = mu
    /\ PmStep("atd", "alock", NoCall, mutex, commandChan, aclFile, atdFile)

(* SaveAtd: pm.mutex.Lock() returns; the temp file and its header are      *)
(* written; pm.cache.mu.RLock() is called                                  *)
AtdLock ==
    /\ pc["atd"] = "alock"
    /\ mutex = ""
    /\ mu' = mu
    /\ PmStep("atd", "arlock", NoCall, "atd", commandChan, aclFile, atdFile)

(* SaveAtd: pm.cache.mu.RLock() returns, holding pm.mutex *)
AtdRLock ==
    /\ pc["atd"] = "arlock"
    /\ mu.w = "" /\ mu.q = {}
    /\ mu' = [mu EXCEPT !.r = @ \cup {"atd"}]
    /\ PmStep("atd", "items", NoCall, mutex, commandChan, aclFile, atdFile)

(* SaveAtd writes the items and calls RUnlock() *)
AtdItems ==
    /\ pc["atd"] = "items"
    /\ mu' = [mu EXCEPT !.r = @ \ {"atd"}]
    /\ \E ks \in KeyOrders(items) :
          PmStep("atd", "rename", SaveAtd(items, ks, now), mutex, commandChan, aclFile, atdFile)

(* SaveAtd renames the temp file; the deferred Unlock() *)
AtdRename ==
    /\ pc["atd"] = "rename"
    /\ mu' = mu
    /\ PmStep("atd", "idle", NoCall, "", commandChan, aclFile, call["atd"])

(* periodicAcl's ticker fires: flushAcl sleeps and compactAclFiles, with   *)
(* no lock, finds a single ACL file and returns                            *)
AclFlush ==
    /\ pc["acl"] \in {"idle", "sleep"}
    /\ mu' = mu
    /\ PmStep("acl", IF pc["acl"] = "idle" THEN "sleep" ELSE "idle", NoCall, mutex,
              commandChan, aclFile, atdFile)

InitL ==
    /\ InitKeyspace
    /\ hit = [k \in Keys |-> -2]
    /\ gone = [k \in Keys |-> "off"]
    /\ persistence = TRUE
    /\ commandChan = <<>>
    /\ pmState = "running"
    /\ writerAlive = TRUE
    /\ aclFile = <<>>
    /\ atdFile = NoFile
    /\ mu = [w |-> "", r |-> {}, q |-> {}]
    /\ mutex = ""
    /\ pc = [t \in Tasks |-> IF t = "writer" THEN "recv" ELSE "idle"]
    /\ call = [t \in Tasks |-> NoCall]
    /\ muts = <<>>
    /\ authenticated = [c \in Conns |-> FALSE]
    /\ request = [conn |-> 0, line |-> <<>>]
    /\ response = <<>>
    /\ strategy = "single-goroutine"
    /\ authManager = NoAuthManager
    /\ pool = NoPool
    /\ compact = NoCompact

NextL ==
    \/ \E c \in Clients, op \in WriteOps \cup {"Get"}, k \in DKeys, v \in LockValues :
          ClientCall(c, op, k, v)
    \/ \E c \in Clients : ClientLock(c)
    \/ \E c \in Clients : ClientBody(c)
    \/ \E c \in Clients : ClientRLock(c)
    \/ \E c \in Clients : ClientRBody(c)
    \/ WriterReceive
    \/ WriterLock
    \/ WriterWrite
    \/ AtdCall
    \/ AtdLock
    \/ AtdRLock
    \/ AtdItems
    \/ AtdRename
    \/ AclFlush

SpecL == InitL /\ [][NextL]_vars

----------------------------------------------------------------------------
(* utils.ParseTTL with the width of its numbers.  A 64-bit integer is four *)
(* limbs of 16 bits, the lowest first; int64 is two's complement, and a    *)
(* product keeps its low 64 bits.  A longer sequence of limbs holds a      *)
(* number that needs more bits.                                            *)
Limb == 2 ^ 16

Zero(n) == [i \in 1..n |-> 0]

RECURSIVE MulAdd(_, _, _)
(* x * c + carry in as many limbs as x has (c below 2^15) *)
MulAdd(x, c, carry) ==
    IF x = <<>> THEN <<>>
    ELSE LET v == x[1] * c + carry
         IN  <<v % Limb>> \o MulAdd(Tail(x), c, v \div Limb)

RECURSIVE Times(_, _)
(* x times each factor in turn *)
Times(x, factors) ==
    IF factors = <<>> THEN x ELSE Times(MulAdd(x, Head(factors), 0), Tail(factors))

(* -x in two's complement *)
Negate(x) == MulAdd([i \in 1..Len(x) |-> Limb - 1 - x[i]], 1, 1)

RECURSIVE Decimal(_, _)
(* The number the decimal digits s write, in n limbs *)
Decimal(s, n) ==
    IF s = <<>> THEN Zero(n)
    ELSE MulAdd(Decimal(SubSeq(s, 1, Len(s) - 1), n), 10, DigitVal(s[Len(s)]))

(* strconv.Atoi on a 64-bit platform: [ok, n]; a value outside int64 is an *)
(* error                                                                   *)
Atoi(s) ==
    LET body == IF s # <<>> /\ s[1] \in {"+", "-"} THEN Tail(s) ELSE s
        neg == s # <<>> /\ s[1] = "-"
        wide == Decimal(body, 8)
        low == SubSeq(wide, 1, 4)
    IN  IF body = <<>> \/ \E i \in 1..Len(body) : ~IsDigit(body[i])
        THEN [ok |-> FALSE, n |-> Zero(4)]
        ELSE IF \/ SubSeq(wide, 5, 8) # Zero(4)
                \/ low[4] >= Limb \div 2 /\ ~(neg /\ low = <<0, 0, 0, Limb \div 2>>)
        THEN [ok |-> FALSE, n |-> Zero(4)]
        ELSE [ok |-> TRUE, n |-> IF neg THEN Negate(low) ELSE low]

(* time.Second, and what time.Minute, time.Hour, 24 * time.Hour and        *)
(* 365 * 24 * time.Hour multiply by, as factors below 2^15                 *)
Second == <<1000, 1000, 1000>>
UnitFactors ==
    [s |-> Second, m |-> <<60>> \o Second, h |-> <<60, 60>> \o Second,
     d |-> <<24, 60, 60>> \o Second, y |-> <<365, 24, 60, 60>> \o Second]

(* utils.ParseTTL: [err, ttl], ttl the time.Duration in nanoseconds *)
ParseTTL64(ttlStr) ==
    LET low == ToLower(ttlStr)
        digits == SubSeq(low, 1, Len(low) - 1)
        unit == low[Len(low)]
    IN  IF ttlStr = <<>> THEN [err |-> FALSE, ttl |-> Zero(4)]
        ELSE IF Atoi(ttlStr).ok
        THEN [err |-> FALSE, ttl |-> Times(Atoi(ttlStr).n, Second)]
        ELSE IF ~(/\ Len(low) >= 2
                  /\ \A i \in 1..Len(digits) : IsDigit(digits[i])
                  /\ unit \in {"s", "m", "h", "d", "y"})
        THEN [err |-> TRUE, ttl |-> Zero(4)]
        ELSE IF ~Atoi(digits).ok THEN [err |-> TRUE, ttl |-> Zero(4)]
        ELSE [err |-> FALSE, ttl |-> Times(Atoi(digits).n, UnitFactors[unit])]

(* The -t values tried: numbers around the largest each unit can carry,    *)
(* with and without a unit                                                 *)
TTLNumbers ==
    {<<"0">>, <<"1">>, <<"2">>, <<"6", "0">>, <<"2", "9", "2">>, <<"2", "9", "3">>, <<"5", "8", "5">>,
     <<"1", "0", "6", "7", "5", "1">>, <<"1", "0", "6", "7", "5", "2">>,
     <<"2", "5", "6", "2", "0", "4", "7">>, <<"2", "5", "6", "2", "0", "4", "8">>,
     <<"1", "5", "3", "7", "2", "2", "8", "6", "7">>, <<"1", "5", "3", "7", "2", "2", "8", "6", "8">>,
     <<"9", "2", "2", "3", "3", "7", "2", "0", "3", "6">>, <<"9", "2", "2", "3", "3", "7", "2", "0", "3", "7">>,
     <<"9", "2", "2", "3", "3", "7", "2", "0", "3", "6", "8", "5", "4", "7", "7", "5", "8", "0", "7">>,
     <<"9", "2", "2", "3", "3", "7", "2", "0", "3", "6", "8", "5", "4", "7", "7", "5", "8", "0", "8">>}
TTLUnits == {<<>>, <<"s">>, <<"m">>, <<"h">>, <<"d">>, <<"y">>, <<"H">>, <<"w">>}
TTLInputs ==
    {n \o u : n \in TTLNumbers, u \in TTLUnits} \cup {<<"-", "1">>, <<"+", "1">>, <<"s">>, <<"1", " ", "s">>}

(* parseTTLFromParts hands the word after -t to ParseTTL *)
ParseTTLCall(ttlStr) ==
    /\ last.op # "ParseTTL"
    /\ request' = [conn |-> 1, line |-> ttlStr]
    /\ last' = [op |-> "ParseTTL", ret |-> ParseTTL64(ttlStr)]
    /\ UNCHANGED <<items, heap, now, hit, pmVars, gone, callVars, strategy, authManager,
                   authenticated, response, pool, compact, mutex>>

(* The next command line is read *)
NextLine ==
    /\ last.op = "ParseTTL"
    /\ request' = [conn |-> 0, line |-> <<>>]
    /\ last' = [op |-> "Scan", ret |-> request.line]
    /\ UNCHANGED <<items, heap, now, hit, pmVars, gone, callVars, strategy, authManager,
                   authenticated, response, pool, compact, mutex>>

InitTTL ==
    /\ InitKeyspace
    /\ InitCalls
    /\ hit = [k \in Keys |-> -2]
    /\ InitNoPersistence
    /\ strategy = "single-goroutine"
    /\ authManager = NewAuthManager(NoFile, FALSE)
    /\ pool = NoPool

NextTTL ==
    \/ \E ttlStr \in TTLInputs : ParseTTLCall(ttlStr)
    \/ NextLine

SpecTTL == InitTTL /\ [][NextTTL]_vars

----------------------------------------------------------------------------
(* Command lines made of tokens.  A client writes its tokens with one      *)
(* space between them and double quotes around a token that holds a space  *)
(* or a tab; the server parses the line it reads.                          *)
MaxTokens == 2
TokenAlphabet == {"a", " ", "\t", "\""}
Tokens ==
    {<<c>> : c \in TokenAlphabet}
    \cup {<<c, d>> : c \in TokenAlphabet, d \in TokenAlphabet}
    \cup {<<c, d, e>> : c \in {"a", " "}, d \in TokenAlphabet, e \in {"a", " "}}

RECURSIVE TokenLists(_)
TokenLists(n) ==
    IF n = 0 THEN {<<>>}
    ELSE {Append(l, t) : l \in TokenLists(n - 1), t \in Tokens} \cup TokenLists(n - 1)

HasBlank(token) == \E i \in 1..Len(token) : token[i] \in {" ", "\t"}

FormatToken(token) == IF HasBlank(token) THEN <<"\"">> \o token \o <<"\"">> ELSE token

FormatTokens(tokens) == Join([i \in 1..Len(tokens) |-> FormatToken(tokens[i])], <<" ">>)

(* A client connects and sends the line of its tokens *)
SendLine ==
    /\ last.op \notin {"Send", "ParseCommandWithQuotes"}
    /\ \E tokens \in TokenLists(MaxTokens) \ {<<>>} :
          /\ request' = [conn |-> 1, line |-> FormatTokens(tokens)]
          /\ last' = [op |-> "Send", ret |-> tokens]
    /\ UNCHANGED <<items, heap, now, hit, pmVars, gone, callVars, strategy, authManager,
                   authenticated, response, pool, compact, mutex>>

(* handleTextConnection reads the line and parses it *)
ParseLine ==
    /\ last.op = "Send"
    /\ request' = [conn |-> 0, line |-> <<>>]
    /\ last' = [op |-> "ParseCommandWithQuotes",
                ret |-> [tokens |-> last.ret, parts |-> ParseCommandWithQuotes(request.line)]]
    /\ UNCHANGED <<items, heap, now, hit, pmVars, gone, callVars, strategy, authManager,
                   authenticated, response, pool, compact, mutex>>

NextTok ==
    \/ SendLine
    \/ ParseLine

SpecTok == InitTTL /\ [][NextTok]_vars


----------------------------------------------------------------------------
(* What the specification calls expired and visible: expires_at > 0 and    *)
(* expires_at <= now; visible iff present and not expired                  *)
SpecExpired(item, t) == item.Expiration > 0 /\ item.Expiration <= t
SpecVisible(it, key, t) == Exists(it, key) /\ ~SpecExpired(it[key], t)

(* The heap positions (1-based) whose entry is the object items[key] *)
EntriesOf(key) == {p \in 1..Len(heap) : heap[p].live /\ heap[p].key = key}

Timed == {k \in Keys : Exists(items, k) /\ items[k].Expiration > 0}

(* C1: P1 heap consistency: every item with expires_at > 0 has exactly one *)
(* heap entry, at the position its index records; the heap holds no entry  *)
(* that is not such an item; the root carries the minimum expires_at of    *)
(* the items with expires_at > 0.                                          *)
C1_HeapConsistency ==
    /\ \A k \in Timed :
          /\ Cardinality(EntriesOf(k)) = 1
          /\ items[k].index >= 0 /\ items[k].index < Len(heap)
          /\ (items[k].index + 1) \in EntriesOf(k)
          /\ heap[items[k].index + 1].exp = items[k].Expiration
    /\ \A p \in 1..Len(heap) : heap[p].live /\ heap[p].key \in Timed
    /\ Len(heap) > 0 => \A k \in Timed : heap[1].exp <= items[k].Expiration
    /\ Len(heap) > 0 => \E k \in Timed : heap[1].exp = items[k].Expiration

(* C2: a sweep removes from the keyspace only items whose own expires_at   *)
(* is > 0 and <= now.                                                      *)
C2_SweepOnlyExpired ==
    [][last'.op = "Cleanup" =>
          \A k \in Keys : (Exists(items, k) /\ ~Exists(items', k)) => SpecExpired(items[k], now)]_vars

(* C4: set_if_absent returns true iff the key is absent or its item has    *)
(* expires_at > 0 and expires_at <= now; otherwise it returns false and    *)
(* changes neither items, the heap nor the log.                            *)
C4_SetNXResult ==
    [][\A k \in Keys, v \in CoreValues, ttl \in TTLs :
          SetNX(k, v, ttl) =>
             /\ last'.ret <=> (~Exists(items, k) \/ SpecExpired(items[k], now))
             /\ ~last'.ret => UNCHANGED <<items, heap, commandChan, aclFile>>]_vars

(* C5: I4 reader visibility: get returns a value iff the key is in items   *)
(* and its expires_at is 0 or > now; get_many and list_keys apply the same *)
(* rule per key; no read removes or changes an item.                       *)
C5_ReaderVisibility ==
    [][/\ \A k \in Keys : Get(k) => (last'.ret[2] <=> SpecVisible(items, k, now))
       /\ \A ks \in SUBSET Keys :
             GetMultiple(ks) => ({r[1] : r \in last'.ret} = {k \in ks : SpecVisible(items, k, now)})
       /\ GetAllKeys => ({r[1] : r \in last'.ret} = {k \in Keys : SpecVisible(items, k, now)})
       /\ last'.op \in {"Get", "GetMultiple", "GetAllKeys"} => UNCHANGED <<items, heap>>]_vars

(* C6: P2 expiry monotonicity: once a get of k returned a value at t1, and *)
(* no set or set_if_absent of k intervened, a get of k at a time >= t2,    *)
(* t2 > t1, with the item's expires_at <= t2, returns nothing.             *)
C6_ExpiryMonotonic ==
    [][\A k \in MonoKeys :
          (/\ Get(k)
           /\ hit[k] >= 0 /\ hit[k] < now
           /\ Exists(items, k) /\ SpecExpired(items[k], now)) => ~last'.ret[2]]_vars

(* Both calls have returned, they were on the same key, and one was       *)
(* issued while the other was in flight                                    *)
Concurrent ==
    /\ \A c \in Conns : pc[c] = "done"
    /\ call[1].key = call[2].key
    /\ call[1].conc \/ call[2].conc

C8_LogAgreement ==
    [][(Restart /\ commandChan = <<>>) =>
          \A k \in Keys :
             /\ Exists(items', k) <=> Exists(items, k)
             /\ Exists(items', k) =>
                   /\ items'[k].Value = items[k].Value
                   /\ items'[k].Expiration = items[k].Expiration]_vars

(* C9: a key set before a FLUSHALL and not set again is absent after a     *)
(* clean shutdown (every logged command written) and restart.              *)
C9_FlushSurvives ==
    [][(Restart /\ commandChan = <<>>) =>
          \A k \in Keys : gone[k] = "flush" => ~Exists(items', k)]_vars

(* C10: a key of type string, array or object that was set and then        *)
(* deleted is absent after a clean shutdown (every logged command written) *)
(* and restart.                                                            *)
C10_DeleteDurable ==
    [][(Restart /\ commandChan = <<>>) =>
          \A k \in Keys : gone[k] = "del" => ~Exists(items', k)]_vars

(* C11: P5 snapshot round-trip: writing a snapshot and reading it into a   *)
(* clean keyspace yields exactly the non-expired items of the original,    *)
(* each with the identical type tag, value and expires_at, and every       *)
(* loaded item with expires_at > 0 is in the rebuilt expiry heap.          *)
C11_SnapshotRoundTrip ==
    [][RoundTrip =>
          \A k \in Keys :
             /\ Exists(items', k) <=> (Exists(items, k) /\ ~SpecExpired(items[k], now))
             /\ Exists(items', k) =>
                   /\ items'[k].Type = items[k].Type
                   /\ items'[k].Value = items[k].Value
                   /\ items'[k].Expiration = items[k].Expiration
                   /\ items'[k].Expiration > 0 =>
                         \E p \in 1..Len(heap') :
                            /\ heap'[p].live /\ heap'[p].key = k
                            /\ heap'[p].exp = items'[k].Expiration]_vars

(* C12: snapshot atomicity on failure: when an I/O step of a snapshot      *)
(* write fails (create, write, flush or close of the temp file), the       *)
(* existing snapshot file is left untouched.                               *)
C12_SnapshotAtomic ==
    [][\A f \in AtdFailures : PeriodicAtd(f) => atdFile' = atdFile]_vars

(* The lines of a log text; the lines of a sequence of commands (values    *)
(* here are strings, whose literal has one form)                           *)
Lines(text) == SelectSeq(Split(text, "\n"), LAMBDA l : l # <<>>)
CommandLines(cmds) == [i \in 1..Len(cmds) |-> Head(Lines(FormatLine(cmds[i], <<>>)))]

RECURSIVE IsSubseq(_, _)
IsSubseq(a, b) ==
    IF a = <<>> THEN TRUE
    ELSE IF b = <<>> THEN FALSE
    ELSE IF Head(a) = Head(b) THEN IsSubseq(Tail(a), Tail(b))
    ELSE IsSubseq(a, Tail(b))

C15_StopDrains ==
    [][(StopFinish /\ last.op = "Stop" /\ ~writerAlive) =>
          Len(Lines(aclFile')) >= last.ret]_vars

(* C16: the keyspace stays usable after the durability engine is Stopped:  *)
(* a set, set_if_absent or delete issued once Stop has completed completes *)
(* normally in memory, its record is not logged, and nothing crashes.      *)
C16_UsableAfterStop ==
    [][\A k \in DKeys, v \in DValues :
          (pmState = "stopped" /\ (Set(k, v, 0) \/ SetNX(k, v, 0) \/ Delete(k))) =>
             /\ pmState' = "stopped"
             /\ commandChan' = commandChan /\ aclFile' = aclFile]_vars

(* The position in the mutation order of the last Set of key that has      *)
(* stored its item, 0 when there is none                                   *)
LastMut(key) ==
    LET idx == {i \in 1..Len(muts) : muts[i].Key = key}
    IN  IF idx = {} THEN 0 ELSE CHOOSE i \in idx : \A j \in idx : j <= i

Handles(c, command) ==
    /\ request' = [conn |-> c, line |-> command]
    /\ \/ strategy = "single-goroutine" /\ SingleProcessCommandDirect(c, command)
       \/ strategy = "pooled-goroutine" /\ PooledProcessCommandDirect(c, command)

AuthOn == authManager # NoAuthManager /\ IsEnabled(authManager)

(* C17: the authentication gate: with authentication enabled, a line whose *)
(* command is not AUTH, on a connection that has not authenticated, is     *)
(* answered ERROR authentication required, calls no keyspace operation and *)
(* changes nothing; AUTH with the configured password sets the flag of the *)
(* connection; handling a line never clears the flag of its connection     *)
(* and never touches the flag of another; a flag is only ever cleared by a *)
(* new connection taking the place.                                        *)
C17_AuthGate ==
    [][/\ \A c \in Conns, command \in Commands :
             Handles(c, command) =>
                LET words == ParseCommandWithQuotes(command)
                    isAuth == ToUpper(words[1]) = <<"A", "U", "T", "H">>
                IN  /\ (AuthOn /\ ~authenticated[c] /\ words # <<>> /\ ~isAuth) =>
                          /\ response' = Reply.ERR_AUTH_REQUIRED
                          /\ last'.op = "none"
                          /\ items' = items /\ heap' = heap
                          /\ authenticated' = authenticated
                    /\ (AuthOn /\ HasPassword(authManager) /\ words # <<>> /\ isAuth
                          /\ Len(words) = 2 /\ words[2] = Password) =>
                          /\ response' = Reply.OK_AUTHENTICATED
                          /\ authenticated'[c]
                    /\ authenticated[c] => authenticated'[c]
                    /\ \A d \in Conns \ {c} : authenticated'[d] = authenticated[d]
       /\ \A c \in Conns :
             (authenticated[c] /\ ~authenticated'[c]) => HandleTextConnection(c)]_vars

(* With a password configured, the first connection has authenticated and  *)
(* stored a key, and the second, which has not, was just refused           *)
C17_Witness ==
    /\ AuthOn
    /\ authenticated[1] /\ ~authenticated[2]
    /\ Exists(items, <<"k">>)
    /\ request.conn = 2 /\ response = Reply.ERR_AUTH_REQUIRED

(* C19: strategy equivalence: the handling of a line by the server that    *)
(* runs is, from the same state, also a handling of the line by the other  *)
(* server: same response, same effect on the keyspace, same effect on the  *)
(* authenticated flags.                                                    *)
C19_StrategyEquivalence ==
    [][\A c \in Conns, command \in Commands :
          request' = [conn |-> c, line |-> command] =>
             (SingleProcessCommandDirect(c, command) <=> PooledProcessCommandDirect(c, command))]_vars

(* The pooled server stored an array with a TTL given by -t and then       *)
(* listed two keys                                                         *)
C19_Witness ==
    /\ strategy = "pooled-goroutine"
    /\ Exists(items, <<"k">>) /\ items[<<"k">>].Expiration > 0 /\ items[<<"k">>].Type = "array"
    /\ last.op = "Keys" /\ Len(last.ret) = 2
    /\ response = <<"j", " ", "k", "\n">>

(* C20: NX commands over the wire: on a connection that may issue          *)
(* commands, a SETNX / SETSNX / SETXNX line for a key that is absent or    *)
(* expired is answered 1 and stores the value, and for a live key is       *)
(* answered 0 and changes nothing.                                         *)
C20_NXOverTheWire ==
    [][\A c \in Conns, command \in Commands :
          LET words == ParseCommandWithQuotes(command)
          IN  (/\ Handles(c, command)
               /\ ~AuthOn \/ authenticated[c]
               /\ words # <<>>
               /\ ToUpper(words[1]) \in {<<"S", "E", "T", "N", "X">>,
                                         <<"S", "E", "T", "S", "N", "X">>,
                                         <<"S", "E", "T", "X", "N", "X">>}) =>
                 IF SpecVisible(items, words[2], now)
                 THEN response' = <<"0", "\n">> /\ items' = items
                 ELSE response' = <<"1", "\n">> /\ SpecVisible(items', words[2], now)]_vars

(* The connection may issue commands: authentication is off or passed *)
MayIssue(c) == ~AuthOn \/ authenticated[c]

(* C21: GET replies: a GET of one key that is visible is answered with the *)
(* bare value, and a GET of one key that is missing or expired is answered *)
(* NOT_FOUND.                                                              *)
C21_GetReplies ==
    [][\A c \in Conns, command \in Commands :
          LET words == ParseCommandWithQuotes(command)
          IN  (/\ Handles(c, command) /\ MayIssue(c)
               /\ Len(words) = 2 /\ ToUpper(words[1]) = <<"G", "E", "T">>) =>
                 response' = IF SpecVisible(items, words[2], now)
                             THEN FormatGet(DecompressValue(items[words[2]].Value))
                             ELSE <<"N", "O", "T", "_", "F", "O", "U", "N", "D", "\n">>]_vars

(* C22: DEL replies with a count: DEL k1 ... kn removes every listed key   *)
(* and is answered with the number of listed keys that were present.       *)
C22_DelCount ==
    [][\A c \in Conns, command \in Commands :
          LET words == ParseCommandWithQuotes(command)
              listed == {words[i] : i \in 2..Len(words)}
          IN  (/\ Handles(c, command) /\ MayIssue(c)
               /\ Len(words) >= 2 /\ ToUpper(words[1]) = <<"D", "E", "L">>) =>
                 /\ response' = Itoa(Cardinality({k \in listed : Exists(items, k)})) \o <<"\n">>
                 /\ \A k \in listed : ~Exists(items', k)]_vars

(* C23: errors change nothing: whenever the server answers a line with a   *)
(* reply that starts with ERROR, it has called no operation of the         *)
(* keyspace, so that items and heap are as before and no record has gone   *)
(* to the log, and the authenticated flag of every connection is as        *)
(* before: the connection is the same one, open for its next line.         *)
C23_ErrorsChangeNothing ==
    [][\A c \in Conns, command \in Commands :
          (Handles(c, command) /\ IsError(response')) =>
             /\ last'.op = "none"
             /\ items' = items /\ heap' = heap
             /\ UNCHANGED pmVars
             /\ authenticated' = authenticated]_vars

(* An authenticated connection stored a key and then sent SETX with an odd *)
(* number of field and value tokens: the reply is the error, the key is    *)
(* still there and the connection is still authenticated                   *)
C23_Witness ==
    /\ AuthOn /\ authenticated[1]
    /\ request = [conn |-> 1, line |-> CommandList[18]]
    /\ response = Reply.ERR_SETX_PAIRS
    /\ last.op = "none"
    /\ Exists(items, <<"k">>)

(* The TTLs as clients write them after -t, and the number of entries of   *)
(* the heap h for key with expiry exp                                      *)
TTLWords == {<<"-", "1">>, <<"0">>, <<"1">>, <<"2", "s">>}
CountEntries(h, key, exp) == Cardinality({p \in 1..Len(h) : h[p].key = key /\ h[p].exp = exp})

(* What a Set or a successful SetNX of key with ttl did to the item and to *)
(* the heap                                                                *)
StoredWithTTL(key, ttl) ==
    /\ items'[key].Expiration = IF ttl > 0 THEN now + ttl ELSE 0
    /\ Len(heap') = Len(heap) + IF ttl > 0 THEN 1 ELSE 0
    /\ \A k \in Keys, exp \in -1..(MaxTime + 2) :
          CountEntries(heap', k, exp) =
             CountEntries(heap, k, exp) + IF ttl > 0 /\ k = key /\ exp = now + ttl THEN 1 ELSE 0

(* C24: zero or negative TTL means no expiry: Set, and SetNX when it       *)
(* stores, called with ttl <= 0 (as -t 0 and -t -1 parse to) store the     *)
(* item with Expiration = 0 and push nothing onto the heap; with ttl > 0   *)
(* they store Expiration = now + ttl and push exactly one entry, for the   *)
(* key with that expiry.                                                   *)
C24_NoExpiryTTL ==
    [][\A k \in Keys, v \in CoreValues, w \in TTLWords :
          LET ttl == ParseTTL(w).ttl
          IN  /\ ~ParseTTL(w).err
              /\ (last'.op = "Set" /\ Set(k, v, ttl)) => StoredWithTTL(k, ttl)
              /\ (last' = [op |-> "SetNX", ret |-> TRUE] /\ SetNX(k, v, ttl)) =>
                    StoredWithTTL(k, ttl)]_vars

(* SetNX found the item of the key expired and stored the key without an  *)
(* expiry: the item has Expiration 0 and the heap holds nothing but the    *)
(* entry of the item it replaced                                           *)
C24_Witness ==
    /\ last = [op |-> "SetNX", ret |-> TRUE]
    /\ Exists(items, <<"k">>) /\ items[<<"k">>].Expiration = 0
    /\ Len(heap) = 1
    /\ heap[1].key = <<"k">> /\ ~heap[1].live /\ heap[1].exp < now

(* The connections the server holds: in the queue or with a worker *)
Queued(p) == {c \in Slots : p.conns[c] = "queued"}
InChan(p, c) == Cardinality({i \in 1..Len(p.taskChan) : p.taskChan[i] = c})

(* Served by one worker or rejected, never both: a connection in the queue *)
(* is there once and no worker has it, one being served or closed by its   *)
(* worker was received by exactly one worker and is not in the queue, and  *)
(* one that the accept loop closed was never in the queue                  *)
OneOwner ==
    \A c \in Slots :
       /\ pool.takers[c] <= 1
       /\ pool.conns[c] = "queued" => pool.takers[c] = 0 /\ InChan(pool, c) = 1
       /\ pool.conns[c] \in {"serving", "closed"} => pool.takers[c] = 1 /\ InChan(pool, c) = 0
       /\ pool.conns[c] \in {"accepted", "rejected"} => pool.takers[c] = 0 /\ InChan(pool, c) = 0

(* The accept loop closes a connection only out of a SubmitTask that found *)
(* the queue full and no worker received since, and counts it              *)
RejectsOnlyFull ==
    \A c \in Slots :
       (pool'.conns[c] = "rejected" /\ pool.conns[c] # "rejected") =>
          /\ pool.accept = "submit" /\ pool.task = c
          /\ Len(pool.taskChan) = pool.maxWorkers
          /\ pool'.taskChan = pool.taskChan
          /\ pool'.rejectedTasks = pool.rejectedTasks + 1

(* C25 as stated: pool admission: every accepted connection is taken by    *)
(* exactly one worker, or is closed by the accept loop when the queue      *)
(* stayed full for the 100 ms and counted as rejected, never both; and the *)
(* counter of active connections equals the number of connections queued   *)
(* or being served.                                                        *)
C25_PoolAdmission ==
    /\ [](OneOwner /\ pool.activeConnections = Cardinality(Queued(pool) \cup Serving(pool)))
    /\ [][RejectsOnlyFull]_vars

(* C25, amended: as stated, but the counter of active connections equals   *)
(* the number of connections queued or being served plus the connection    *)
(* whose task SubmitTask is still waiting to send.                         *)
C25_PoolAdmissionSubmitting ==
    /\ [](/\ OneOwner
          /\ pool.activeConnections =
                Cardinality(Queued(pool) \cup Serving(pool)) + IF pool.accept = "submit" THEN 1 ELSE 0)
    /\ [][RejectsOnlyFull]_vars

(* One connection was rejected, and now a worker serves one, the queue is  *)
(* full and the accept loop waits to send the task of another              *)
C25_Witness ==
    /\ pool.rejectedTasks = 1
    /\ Serving(pool) # {}
    /\ Len(pool.taskChan) = pool.maxWorkers
    /\ pool.accept = "submit"
    /\ pool.activeConnections = Cardinality(Queued(pool) \cup Serving(pool)) + 1

FileLines(files) == UNION {{l : l \in {Lines(files[i])[n] : n \in 1..Len(Lines(files[i]))}} : i \in 1..Len(files)}
AllFiles == <<aclFile>> \o compact.rotated

(* C27: compaction is serialized with the appends of the log writer: no    *)
(* record is appended (and no file rotated) while a compaction is at work, *)
(* so every record appended is in an ACL file when and after the merged    *)
(* file is renamed, and when the compaction has ended pm.aclFileSize is    *)
(* the size of the active file.                                            *)
C27_CompactionSerialized ==
    /\ compact.pc # "idle" => compact.appended = <<>>
    /\ \A i \in 1..Len(compact.appended) :
          Head(Lines(compact.appended[i])) \in FileLines(AllFiles)
    /\ compact.pc = "idle" => compact.aclFileSize = Len(aclFile)

(* The records of the ACL files in the order they were written (rotated    *)
(* files oldest first, the active file last), and in timestamp order, ties *)
(* in the order written                                                    *)
RECURSIVE Flatten(_)
Flatten(files) == IF files = <<>> THEN <<>> ELSE Lines(Head(files)) \o Flatten(Tail(files))
OriginalLines == Flatten(compact.rotated \o <<aclFile>>)
Stamp(line) == ParseInt(Split(line, "|")[1]).n
RECURSIVE TimeOrdered(_)
TimeOrdered(lines) ==
    IF lines = <<>> THEN <<>>
    ELSE LET rest == TimeOrdered(SubSeq(lines, 1, Len(lines) - 1))
             l    == lines[Len(lines)]
         IN  SelectSeq(rest, LAMBDA x : Stamp(x) <= Stamp(l)) \o <<l>>
             \o SelectSeq(rest, LAMBDA x : Stamp(x) > Stamp(l))

(* The snapshots a replay starts from, and the keyspace it ends with *)
EmptySnapshot == [h |-> <<>>, it |-> [k \in Keys |-> NoItem]]
Snapshots == {EmptySnapshot, ReplaySet(EmptySnapshot, <<"k">>, StrVal(<<"a">>), 0, 0)}
Contents(st) ==
    [k \in Keys |-> IF st.it[k] = NoItem THEN NoItem
                    ELSE [Type |-> st.it[k].Type, Value |-> st.it[k].Value]]

(* C28: compaction preserves what replay reconstructs: whatever the ACL    *)
(* files (active and rotated) hold, replaying the compacted log on a       *)
(* snapshot gives the same keys, types and values as replaying all the     *)
(* original records in timestamp order, also when a key was deleted and    *)
(* set again later.                                                        *)
C28_CompactionPreservesReplay ==
    (compact.pc = "idle" /\ compact.rotated # <<>>) =>
       \A st \in Snapshots, merged \in MergedFiles(MergeFiles(<<>>, AllFiles)) :
          Contents(LoadAcl(st, merged, now)) =
             Contents(ReplayLines(st, TimeOrdered(OriginalLines), now))

(* The records that files hold, and the fold rule for the map commands     *)
(* over records: a record for each key that has one, which is one of the   *)
(* key's records, a delete if any of them is a delete, else one of the     *)
(* largest timestamp                                                       *)
Records(files) == {ParseCommand(l).cmd : l \in {x \in FileLines(files) : ParseCommand(x).ok}}
FoldRule(commands, records) ==
    /\ DOMAIN commands = {r.Key : r \in records}
    /\ \A k \in DOMAIN commands :
          /\ commands[k] \in records
          /\ IF \E r \in records : r.Key = k /\ IsDelete(r.Type)
             THEN IsDelete(commands[k].Type)
             ELSE \A r \in records : r.Key = k => r.Timestamp <= commands[k].Timestamp
Permuted(files, order) == [i \in 1..Len(files) |-> files[order[i]]]

(* C29: the compaction fold rule: over all records of all ACL files the    *)
(* merged log keeps exactly one record per key; if any record of the key   *)
(* is a DEL, DELS or DELX the surviving record is a delete, whatever the   *)
(* timestamps and whatever the order in which the files are read;          *)
(* otherwise the surviving record is one with the largest timestamp.       *)
C29_FoldRule ==
    /\ [][(compact.pc = "idle" /\ compact'.pc = "merged") =>
             \A records \in {Records(AllFiles)}, parsed \in {ParseFiles(AllFiles)} :
                /\ FoldRule(compact'.commands, records)
                /\ \A order \in Enumerations(1..Len(parsed)) :
                      FoldRule(MergeParsed(<<>>, Permuted(parsed, order)), records)]_vars
    /\ [][(compact.pc = "merged" /\ compact'.pc = "renamed") =>
             /\ Records(<<aclFile'>>) = {compact.commands[k] : k \in DOMAIN compact.commands}
             /\ Len(Lines(aclFile')) = Cardinality(DOMAIN compact.commands)]_vars

(* Three files were read, and the record kept for k is a delete although a *)
(* SET of k with a larger timestamp was read                               *)
C29_Witness ==
    /\ compact.pc = "merged"
    /\ compact.appended = <<>>
    /\ Len(AllFiles) = 3
    /\ <<"k">> \in DOMAIN compact.commands
    /\ IsDelete(compact.commands[<<"k">>].Type)
    /\ \E r \in Records(AllFiles) :
          /\ r.Key = <<"k">> /\ r.Type = CMD_SET
          /\ r.Timestamp > compact.commands[<<"k">>].Timestamp

(* C30: compaction is idempotent: a compaction of already compacted input  *)
(* is a fixed point.  When no record was appended since the files were     *)
(* read, the rename leaves the merged file as the only ACL file, on which  *)
(* compactAclFiles returns at once (it starts to merge only with a rotated *)
(* file present); and the fold and write applied to the merged file give   *)
(* the records that it holds.                                              *)
C30_CompactionIdempotent ==
    /\ [][(compact.pc = "idle" /\ compact'.pc = "merged") => compact.rotated # <<>>]_vars
    /\ [][(compact.pc = "merged" /\ compact'.pc = "renamed") =>
             \A records \in {Records(<<aclFile'>>)}, again \in {MergeFiles(<<>>, <<aclFile'>>)} :
                /\ compact.appended = <<>> => compact'.rotated = <<>>
                /\ {again[k] : k \in DOMAIN again} = records
                /\ \A merged \in MergedFiles(again) : Records(<<merged>>) = records]_vars

(* A compaction that no append disturbed has folded three records into    *)
(* the two of the merged file, the only ACL file left                     *)
C30_Witness ==
    /\ compact.pc = "renamed"
    /\ compact.appended = <<>>
    /\ compact.rotated = <<>>
    /\ compact.written = 3
    /\ commandChan = <<>>
    /\ Cardinality(Records(<<aclFile>>)) = 2

(* An expiry e1 later than e0, 0 being no expiry at all *)
Later(e1, e0) == e0 > 0 /\ (e1 = 0 \/ e1 > e0)

(* C31: expiry survives restart: recovery (snapshot load, then log replay) *)
(* after a shutdown that wrote every logged command never gives a key a    *)
(* later absolute expires_at than it had before the shutdown, and a key    *)
(* whose TTL had elapsed before the shutdown is not readable after the     *)
(* restart.                                                                *)
C31_ExpirySurvivesRestart ==
    [][(Restart /\ commandChan = <<>>) =>
          \A k \in Keys :
             /\ (Exists(items, k) /\ Exists(items', k)) =>
                   ~Later(items'[k].Expiration, items[k].Expiration)
             /\ (Exists(items, k) /\ SpecExpired(items[k], now)) =>
                   ~GetResult(items', k, now)[2]]_vars

(* The verbs of the records that store a value, and the records of the ACL *)
(* file that name key, in file order                                       *)
SetVerbs ==
    {CMD_SET, CMD_SETS, CMD_SETX, CMD_SETNX,
     <<"S", "E", "T", "S", "N", "X">>, <<"S", "E", "T", "X", "N", "X">>}
RecordsOf(file, key) == SelectSeq(ParseLines(Lines(file)), LAMBDA cmd : cmd.Key = key)

(* C32: replay applies every verb the writer emits: replaying the ACL onto *)
(* a snapshot that does not hold the key, a key whose last record has the  *)
(* verb SET, SETS, SETX, SETNX, SETSNX or SETXNX is present afterwards     *)
(* with the value of that record; so a key created by a successful         *)
(* set_if_absent is present after the replay.                              *)
C32_ReplayAppliesEveryVerb ==
    \A replayed \in {LoadAcl(EmptySnapshot, aclFile, now).it} :
       \A k \in Keys :
          LET rs == RecordsOf(aclFile, k)
          IN  (rs # <<>> /\ rs[Len(rs)].Type \in SetVerbs) =>
                 /\ Exists(replayed, k)
                 /\ replayed[k].Value = rs[Len(rs)].Value

(* The verb the specification gives a record that stores value *)
VerbOf(value) ==
    CASE value.t = "array"  -> CMD_SETS
      [] value.t = "object" -> CMD_SETX
      [] OTHER              -> CMD_SET

(* C33: the log verb reflects the value type: the record a set emits has   *)
(* verb SET for a string, SETS for an array and SETX for an object; the    *)
(* record of a successful set_if_absent has SETNX, SETSNX or SETXNX (the   *)
(* set verb followed by NX); a delete emits DEL, never DELS or DELX.       *)
C33_LogVerbReflectsType ==
    [][Len(commandChan') = Len(commandChan) + 1 =>
          LET cmd == commandChan'[Len(commandChan')]
          IN  /\ last'.op = "Set" => cmd.Type = VerbOf(cmd.Value)
              /\ last'.op = "SetNX" => cmd.Type = VerbOf(cmd.Value) \o <<"N", "X">>
              /\ last'.op = "Delete" => cmd.Type = CMD_DEL]_vars

(* C34: log value round trip with explicit types: for every logged set the *)
(* value that replay parses back from the ACL line has the type (string,   *)
(* array or object) and the contents of the value logged; the type is what *)
(* was recorded, never inferred from the shape of the text (a string that  *)
(* starts with '[' or 'map[' or holds '|' comes back as the same string).  *)
C34_LogValueRoundTrip ==
    [][(commandChan # <<>> /\ commandChan' = Tail(commandChan) /\ aclFile' # aclFile) =>
          \A cmd \in {Head(commandChan)} :
             \A replayed \in {LoadAcl(EmptySnapshot,
                                      SubSeq(aclFile', Len(aclFile) + 1, Len(aclFile')), now).it} :
                cmd.Type \in SetVerbs =>
                   /\ Exists(replayed, cmd.Key)
                   /\ replayed[cmd.Key].Type = cmd.Value.t
                   /\ replayed[cmd.Key].Value = cmd.Value]_vars

BadHeader(file) == file # NoFile /\ (file.magic # MAGIC_HEADER \/ file.version # VERSION)

(* C35: snapshot header rejection: a startup that finds a snapshot with a  *)
(* wrong magic number or an unknown version rejects it before the keyspace *)
(* is modified and is aborted: the process does not come to run, neither   *)
(* with an empty keyspace nor with one loaded from the log alone.          *)
C35_HeaderRejection ==
    [][(pmState = "stopped" /\ BadHeader(atdFile) /\ last'.op = "Restart") =>
          /\ LoadAtd([h |-> heap, it |-> items], atdFile, now) = [h |-> heap, it |-> items]
          /\ pmState' # "running"]_vars

----------------------------------------------------------------------------
(* The tasks blocked in c.mu.Lock() or c.mu.RLock(), and in pm.mutex.Lock() *)
WaitsMu(t) == pc[t] \in {"lock", "rlock", "arlock"}

WaitsMutex(t) == pc[t] \in {"wlock", "alock", "blog"}

(* The tasks holding c.mu, in either mode *)
HoldsMu(t) == mu.w = t \/ t \in mu.r

(* t cannot go on before u lets go of a lock *)
WaitsFor(t, u) ==
    /\ t # u
    /\ \/ WaitsMutex(t) /\ mutex = u
       \/ WaitsMu(t) /\ HoldsMu(u)

RECURSIVE Stuck(_, _)
(* The tasks that wait for a task of the set stuck, and so on *)
Stuck(stuck, n) ==
    IF n = 0 THEN stuck
    ELSE Stuck({t \in Tasks : \E u \in stuck : WaitsFor(t, u)}, n - 1)

(* C36: deadlock freedom across the two locks.  In every reachable state   *)
(* of the interleaved client commands, log writer, periodic snapshot and   *)
(* periodic compaction: no task holding the keyspace lock c.mu waits for   *)
(* the durability mutex pm.mutex (so the two locks are only ever taken in  *)
(* the order pm.mutex, then c.mu), the holder of c.mu in exclusive mode is *)
(* in its body and waits for nothing, and no chain of tasks waiting for    *)
(* each other comes back to its start.                                     *)
C36_DeadlockFree ==
    /\ \A t \in Tasks : HoldsMu(t) => ~WaitsMutex(t)
    /\ \A t \in Tasks : mu.w = t => pc[t] = "body"
    /\ \A t \in Tasks : t \notin Stuck({t}, Cardinality(Tasks))

(* The snapshot holds pm.mutex and waits for c.mu, which a client holds    *)
(* exclusively, while the log writer waits for pm.mutex                    *)
C36_Witness ==
    /\ mutex = "atd" /\ pc["atd"] = "arlock"
    /\ mu.w \in Clients /\ pc[mu.w] = "body"
    /\ pc["writer"] = "wlock"

----------------------------------------------------------------------------
(* The connections waiting in the channel *)
QueuedConnections == Cardinality({i \in 1..Len(pool.taskChan) : pool.taskChan[i] # 0})

(* C37: bounded concurrent socket ownership.  Under the pooled strategy,   *)
(* in every reachable state, for the configured target: maxWorkers is      *)
(* 2 * target, the connections being served by workers are at most         *)
(* maxWorkers, and the accepted connections waiting in the queue are at    *)
(* most the capacity of the channel, which is maxWorkers.                  *)
C37_BoundedOwnership ==
    \E target \in CountedTargets :
        /\ pool.maxWorkers = 2 * target
        /\ pool.minWorkers = (IF target \div 4 > 1 THEN target \div 4 ELSE 1)
        /\ pool.serving <= 2 * target
        /\ QueuedConnections <= pool.maxWorkers

(* Between a scale-down and the scale-up that followed it: more worker     *)
(* goroutines than maxWorkers exist, maxWorkers of them serving, and a     *)
(* connection waits                                                        *)
C37_Witness ==
    /\ pool.serving = pool.maxWorkers
    /\ pool.idle + pool.serving > pool.maxWorkers
    /\ QueuedConnections > 0

----------------------------------------------------------------------------
(* The worker count the scaling rule of the specification leaves, for the  *)
(* configured target, the queue length, the busy workers (those serving a  *)
(* connection) and the current count                                       *)
ScaledCount(p) ==
    LET target == p.maxWorkers \div 2
        queue == Len(p.taskChan)
        grow == queue > target \div 2 \/ p.serving * 10 >= p.workerCount * 9
        c1 == IF grow THEN min(p.workerCount + target \div 4, p.maxWorkers) ELSE p.workerCount
        shrink == queue = 0 /\ p.fast
        c2 == IF shrink THEN max(c1 - c1 \div 8, min(c1, p.minWorkers)) ELSE c1
    IN  IF p.due THEN c2 ELSE p.workerCount

(* C38: the scaling step rule.  At a scaling check (one is made after each *)
(* accepted task, and acts only when the scale interval has passed) the    *)
(* worker count becomes what the rule gives: up by target/4, capped at     *)
(* maxWorkers, when the queue is longer than target/2 or the busy workers  *)
(* are at least 90% of the count; down by an eighth, floored at            *)
(* minWorkers, when the queue is empty and the average task time is under  *)
(* 1 ms; and the workers started, less the nil tasks sent to stop workers, *)
(* are the change of the worker count.                                     *)
C38_ScalingRule ==
    [][(pool.accept = "scale" /\ pool'.accept = "accept") =>
          /\ pool'.workerCount = ScaledCount(pool)
          /\ (pool'.idle - pool.idle) - (Len(pool'.taskChan) - Len(pool.taskChan))
                = pool'.workerCount - pool.workerCount]_vars

----------------------------------------------------------------------------
(* N times the unit of a -t value, in nanoseconds, with all its bits: the  *)
(* sign and eight limbs of magnitude.  A value without a unit is in        *)
(* seconds.                                                                *)
ExactTTL(ttlStr) ==
    LET low == ToLower(ttlStr)
        unit == low[Len(low)]
        hasUnit == unit \in {"s", "m", "h", "d", "y"}
        number == IF hasUnit THEN SubSeq(low, 1, Len(low) - 1) ELSE low
        digits == IF number # <<>> /\ number[1] \in {"+", "-"} THEN Tail(number) ELSE number
        mag == Times(Decimal(digits, 8), IF hasUnit THEN UnitFactors[unit] ELSE Second)
    IN  [neg |-> number # <<>> /\ number[1] = "-" /\ mag # Zero(8), mag |-> mag]

(* The value of an int64, as sign and eight limbs of magnitude *)
Wide(n) ==
    IF n[4] >= Limb \div 2 THEN [neg |-> TRUE, mag |-> Negate(n) \o Zero(4)]
    ELSE [neg |-> FALSE, mag |-> n \o Zero(4)]

(* C39: TTL value arithmetic.  For every -t value that ParseTTL accepts,   *)
(* a bare integer N or N followed by s, m, h, d or y, the duration it      *)
(* returns is N times 1, 60, 3600, 86400 or 31,536,000 seconds, as a       *)
(* number and not only in its low 64 bits: a value whose duration does not *)
(* fit the signed 64-bit nanoseconds is answered with an error.            *)
C39_TTLArithmetic ==
    (last.op = "ParseTTL" /\ ~last.ret.err) => Wide(last.ret.ttl) = ExactTTL(request.line)

----------------------------------------------------------------------------
(* A well-formed token: not empty, of plain characters, spaces and tabs *)
WellFormed(token) ==
    /\ token # <<>>
    /\ \A i \in 1..Len(token) : token[i] \in {"a", " ", "\t"}

(* C40: tokenization round trip (P7).  A sequence of well-formed tokens,   *)
(* written with one space between tokens and quotes around each token that *)
(* holds a space or a tab, is parsed by ParseCommandWithQuotes into the    *)
(* same sequence of tokens.                                                *)
C40_TokenRoundTrip ==
    (/\ last.op = "ParseCommandWithQuotes"
     /\ \A i \in 1..Len(last.ret.tokens) : WellFormed(last.ret.tokens[i]))
       => last.ret.parts = last.ret.tokens

(* A token of blanks alone and a token with a blank inside came back *)
C40_Witness ==
    /\ last.op = "ParseCommandWithQuotes"
    /\ last.ret.tokens = <<<<" ", "\t">>, <<"a", " ", "a">>>>
    /\ last.ret.parts = last.ret.tokens

====
